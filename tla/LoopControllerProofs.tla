------------------------ MODULE LoopControllerProofs ------------------------
(***************************************************************************)
(* Theorems about the loop, for every value of its constants.              *)
(***************************************************************************)
EXTENDS LoopRefinement, SequenceTheorems, WellFoundedInduction, TLAPS

(* A non-empty set of naturals has a least element, so the brief's lead is
   well defined. *)
LEMMA LeastNatural ==
    ASSUME NEW S, S \subseteq Nat, S # {}
    PROVE  \E x \in S : \A y \in S : x <= y
<1>1. \E x \in S : \A y \in S : ~ (<<y, x>> \in OpToRel(<, Nat))
  BY WFMin, NatLessThanWellFounded
<1>2. \A x, y \in S : <<y, x>> \in OpToRel(<, Nat) <=> y < x
  BY DEF OpToRel
<1>3. \E x \in S : \A y \in S : ~ (y < x)
  BY <1>1, <1>2, Zenon
<1> QED BY <1>3

(* The lead dimension of a brief is one of those ranked, or none. *)
LEMMA LeadType ==
    ASSUME NEW ranked \in Seq(Dims), NEW excluded
    PROVE  /\ LeadDimension(ranked, excluded) \in Dims \cup {NoDim}
           /\ ranked # <<>> => LeadDimension(ranked, excluded) \in Dims
<1> DEFINE fresh == {i \in DOMAIN ranked : ranked[i] \notin excluded}
<1>1. \A i \in DOMAIN ranked : ranked[i] \in Dims
  OBVIOUS
<1>2. fresh \subseteq Nat
  OBVIOUS
<1>3. fresh # {} => (CHOOSE i \in fresh : \A j \in fresh : i <= j) \in fresh
  BY <1>2, LeastNatural
<1>4. ranked # <<>> => 1 \in DOMAIN ranked
  OBVIOUS
<1> QED BY <1>1, <1>3, <1>4 DEF LeadDimension

(* What a refiner call, a roll-back and the clock leave behind is well typed. *)
LEMMA EditType ==
    ASSUME NEW written, ToolType, Edit(written)
    PROVE  tree' \in Trees /\ edits' \in Nat
BY DEF Edit, Trees, ToolType

(* A roll-back leaves a tree. *)
LEMMA RestoredType ==
    ASSUME tree \in Trees, NEW t \in Trees
    PROVE  Restored(t) \in Trees
BY DEF Restored, Trees

(* The clock stays within its bound. *)
LEMMA ElapseType ==
    ASSUME NEW d \in Durations, elapsed \in 0..ClockBound, Elapse(d)
    PROVE  elapsed' \in 0..ClockBound
BY CallsAssumption DEF Elapse

(* So does a whole refiner call, with its cost. *)
LEMMA CallRefinerType ==
    ASSUME NEW cost \in Costs, ToolType, CostType, CallRefiner(cost)
    PROVE  /\ tree' \in Trees /\ edits' \in Nat
           /\ elapsed' \in 0..ClockBound
           /\ cost \in Nat /\ burnt' \in Nat
<1>1. tree' \in Trees /\ edits' \in Nat
  BY EditType DEF CallRefiner
<1>2. elapsed' \in 0..ClockBound
  BY ElapseType DEF CallRefiner, CostType
<1>3. burnt \in Nat /\ cost \in Nat /\ burnt' = burnt + cost
  BY CallsAssumption DEF CallRefiner, CostType
<1>4. burnt' \in Nat
  BY <1>3
<1> QED BY <1>1, <1>2, <1>3, <1>4

(* A row written for a report and the present tree is well typed. *)
LEMMA RowType ==
    ASSUME ToolType, NEW r \in Reports, NEW diff \in {"initial", "refactor", "compression"}
    PROVE  Row(r, diff) \in RowSet
BY DEF Row, RowSet, ToolType

(* Recording a row counts it. *)
LEMMA RecordType ==
    ASSUME StoreType, NEW row \in RowSet, Record(row)
    PROVE  /\ rows' \in Seq(RowSet) /\ n' \in Nat /\ n' = n + 1
           /\ Len(rows') = Len(rows) + 1
BY AppendProperties DEF Record, StoreType

(* The reflection built from a report is well typed. *)
LEMMA ReflectTypes ==
    ASSUME NEW r \in Reports, NEW outcome \in {"reversed", "accepted", "rolled_back"},
           ReflectionType, Reflect(r, outcome)
    PROVE  ReflectionType'
BY ReportsAssumption DEF Reflect, ReflectionType

-----------------------------------------------------------------------------
(* The rows have their numbers, the kept verdict has a row, and run()
   applies the row it has just judged: what the type invariant rests on. *)
AfterBaseline == pc \in {"evaluate", "refactor", "judge", "apply", "compress",
                         "compress_judge", "done"}

RowsOK ==
    /\ Len(rows) = n
    /\ AfterBaseline => kept \in 1..n
    /\ pc = "start" => n = 0 /\ kept = 0

(* The kept verdict is a report of the judge. *)
LEMMA RowReport ==
    ASSUME StoreType, Len(rows) = n, NEW k \in 1..n
    PROVE  rows[k] \in RowSet /\ rows[k].rep \in Reports /\ rows[k].of \in Trees
           /\ rows[k].rep.ranked \in Seq(Dims)
<1>1. rows \in Seq(RowSet) /\ k \in 1..Len(rows)
  BY DEF StoreType
<1>2. rows[k] \in RowSet
  BY <1>1
<1>3. rows[k].rep \in Reports /\ rows[k].of \in Trees
  BY <1>2 DEF RowSet
<1> QED BY <1>2, <1>3, ReportsAssumption

(* The types and the numbering of the rows hold when run() is called. *)
LEMMA InitInv == Init => TypeOK /\ RowsOK
<1> SUFFICES ASSUME Init PROVE TypeOK /\ RowsOK
  OBVIOUS
<1>1. ToolType
  BY PathsAssumption DEF Init, Trees, ToolType
<1>2. RowsOK
  BY DEF Init, RowsOK, AfterBaseline
<1>3. CallType /\ CostType
  <2>1. retries = 0 /\ cards = {} /\ tokensSpent = 0 /\ burnt = 0 /\ elapsed = 0
    BY DEF Init
  <2> QED BY <2>1, CallsAssumption, LimitsAssumption DEF CallType, CostType
<1>4. PivotType
  <2>1. pivotsUsed = 0 /\ pivotOffset = 0 /\ activeExclude = {} /\ targeted = {} /\ lead = NoDim
    BY DEF Init
  <2> QED BY <2>1, LimitsAssumption DEF PivotType
<1>5. ControlType /\ StoreType /\ KeptType
  <2>1. pc = "start" /\ run = "running" /\ reason = "" /\ reported = 0
    BY DEF Init
  <2>2. rows = <<>> /\ n = 0 /\ forkCards = {} /\ learnings = <<>>
    BY DEF Init
  <2>3. kept = 0 /\ lineage = <<>> /\ accepted = 0
    BY DEF Init
  <2>4. ControlType
    BY <2>1 DEF ControlType
  <2>5. StoreType
    BY <2>2 DEF StoreType
  <2>6. KeptType
    BY <2>3 DEF KeptType
  <2> QED BY <2>4, <2>5, <2>6
<1>6. ReflectionType
  BY DEF Init, ReflectionType
<1>7. pc # "compress_judge"
  BY DEF Init
<1> QED BY <1>1, <1>2, <1>3, <1>4, <1>5, <1>6, <1>7 DEF TypeOK

(* Starting a refactor keeps the types. *)
LEMMA BeginRefactorType ==
    ASSUME ToolType, PivotType, verdict.ranked \in Seq(Dims), NEW excluded, NEW tried,
           excluded \subseteq Dims \cup {NoDim}, tried \subseteq Dims \cup {NoDim},
           BeginRefactor(excluded, tried)
    PROVE  /\ token' \in Trees /\ lead' \in Dims \cup {NoDim}
           /\ activeExclude' \subseteq Dims \cup {NoDim}
           /\ targeted' \subseteq Dims \cup {NoDim}
<1>1. LeadDimension(verdict.ranked, excluded) \in Dims \cup {NoDim}
  BY LeadType
<1> QED BY <1>1 DEF BeginRefactor, ToolType

(* The row a compression pass ends with becomes the kept one. *)
LEMMA KeepCompressedType ==
    ASSUME NEW row \in RowSet, TypeOK, RowsOK, KeepCompressed(row)
    PROVE  /\ rows' \in Seq(RowSet) /\ n' \in Nat /\ KeptType' /\ CallType' /\ CostType'
           /\ PivotType' /\ ReflectionType' /\ ControlType' /\ RowsOK' /\ pc' = "evaluate"
<1> USE DEF pivotVars, costVars, callVars, endVars
<1>0. ControlType /\ StoreType /\ KeptType /\ CallType /\ CostType /\ PivotType /\ ReflectionType
  BY DEF TypeOK
<1>1. /\ rows' \in Seq(RowSet) /\ n' \in Nat /\ n' = n + 1 /\ Len(rows') = Len(rows) + 1
      /\ n \in Nat
  BY <1>0, RecordType DEF KeepCompressed, StoreType
<1>2. lineage' \in Seq(Nat) /\ kept' = n + 1
  BY <1>0, <1>1, AppendProperties DEF KeepCompressed, KeptType
<1>3. KeptType'
  BY <1>0, <1>1, <1>2 DEF KeepCompressed, KeptType
<1>4. row.rep \in Reports
  BY DEF RowSet
<1>5. ReflectionType'
  BY <1>0, <1>4, ReflectTypes DEF KeepCompressed
<1>6. ControlType' /\ CallType' /\ CostType' /\ PivotType' /\ pc' = "evaluate"
  BY <1>0 DEF KeepCompressed, ControlType, CallType, CostType, PivotType
<1>7. RowsOK'
  BY <1>1, <1>2, <1>6 DEF RowsOK
<1> QED BY <1>1, <1>3, <1>5, <1>6, <1>7

(* Every step keeps the types and the numbering of the rows. *)
LEMMA TypeStep == TypeOK /\ RowsOK /\ [Next]_vars => TypeOK' /\ RowsOK'
<1> SUFFICES ASSUME TypeOK, RowsOK, [Next]_vars PROVE TypeOK' /\ RowsOK'
  OBVIOUS
<1> USE DEF toolVars, storeVars, keptVars, pivotVars, costVars, reflectVars, callVars, endVars
<1>0. /\ ControlType /\ ToolType /\ StoreType /\ KeptType /\ CallType /\ CostType
      /\ PivotType /\ ReflectionType
  BY DEF TypeOK
<1>1. CASE JudgeBaseline
  <2>1. PICK r \in Reports : Record(Row(r, "initial"))
    BY <1>1 DEF JudgeBaseline
  <2>2. rows' \in Seq(RowSet) /\ n' \in Nat /\ n' = n + 1 /\ Len(rows') = Len(rows) + 1
    BY <1>0, <2>1, RowType, RecordType
  <2>3. StoreType'
    BY <1>0, <1>1, <2>2 DEF JudgeBaseline, StoreType
  <2>4. KeptType'
    BY <1>0, <1>1 DEF JudgeBaseline, KeptType
  <2>5. ControlType'
    BY <1>0, <1>1 DEF JudgeBaseline, ControlType
  <2>6. ToolType' /\ CallType' /\ CostType' /\ PivotType' /\ ReflectionType' /\ pc' = "evaluate"
    BY <1>0, <1>1 DEF JudgeBaseline, ToolType, CallType, CostType, PivotType, ReflectionType,
                      Trees
  <2>7. RowsOK'
    BY <1>1, <2>2 DEF JudgeBaseline, RowsOK, AfterBaseline
  <2> QED BY <2>3, <2>4, <2>5, <2>6, <2>7 DEF TypeOK
<1>2. CASE Finish
  <2>1. Decision \in {"blocked_safety", "converged", "iteration_cap", "token_cap",
                      "wall_cap", "plateau", "continue"}
    BY DEF Decision, BudgetDecision
  <2>2. ControlType'
    BY <1>0, <1>2, <2>1 DEF Finish, Terminal, ControlType, KeptType
  <2>3. /\ ToolType' /\ StoreType' /\ KeptType' /\ CallType' /\ CostType' /\ PivotType'
        /\ ReflectionType' /\ pc' = "done"
    BY <1>0, <1>2 DEF Finish, ToolType, StoreType, KeptType, CallType, CostType, PivotType,
                      ReflectionType, Trees
  <2>4. RowsOK'
    BY <1>2 DEF Finish, RowsOK, AfterBaseline
  <2> QED BY <2>2, <2>3, <2>4 DEF TypeOK
<1>3. CASE Continue
  <2>1. kept \in 1..n /\ Len(rows) = n
    BY <1>3 DEF Continue, RowsOK, AfterBaseline
  <2>2. verdict.ranked \in Seq(Dims)
    BY <1>0, <2>1, RowReport DEF verdict
  <2>3. /\ activeExclude \subseteq Dims \cup {NoDim} /\ targeted \subseteq Dims \cup {NoDim}
        /\ BeginRefactor(activeExclude, targeted)
    BY <1>0, <1>3 DEF Continue, PivotType
  <2>4. /\ token' \in Trees /\ lead' \in Dims \cup {NoDim}
        /\ activeExclude' \subseteq Dims \cup {NoDim}
        /\ targeted' \subseteq Dims \cup {NoDim}
    BY <1>0, <2>2, <2>3, BeginRefactorType
  <2>5. PivotType'
    BY <1>0, <1>3, <2>4 DEF Continue, PivotType
  <2>6. ToolType'
    BY <1>0, <2>3, <2>4 DEF BeginRefactor, ToolType
  <2>7. ControlType' /\ StoreType' /\ KeptType' /\ CallType' /\ CostType' /\ ReflectionType'
        /\ pc' = "refactor"
    BY <1>0, <2>3 DEF BeginRefactor, ControlType, StoreType, KeptType, CallType, CostType,
                      ReflectionType
  <2>8. RowsOK'
    BY <2>1, <2>3 DEF BeginRefactor, RowsOK, AfterBaseline
  <2> QED BY <2>5, <2>6, <2>7, <2>8 DEF TypeOK
<1>4. CASE Pivot
  <2>1. kept \in 1..n /\ Len(rows) = n /\ n \in Nat
    BY <1>0, <1>4 DEF Pivot, RowsOK, AfterBaseline, StoreType
  <2>2. verdict.ranked \in Seq(Dims)
    BY <1>0, <2>1, RowReport DEF verdict
  <2>3. /\ activeExclude \cup targeted \subseteq Dims \cup {NoDim}
        /\ {} \subseteq Dims \cup {NoDim}
        /\ BeginRefactor(activeExclude \cup targeted, {})
    BY <1>0, <1>4 DEF Pivot, PivotType
  <2>4. /\ token' \in Trees /\ lead' \in Dims \cup {NoDim}
        /\ activeExclude' \subseteq Dims \cup {NoDim}
        /\ targeted' \subseteq Dims \cup {NoDim}
    BY <1>0, <2>2, <2>3, BeginRefactorType
  <2>5. /\ pivotsUsed \in 0..PlateauPivots /\ pivotsUsed < PlateauPivots
        /\ pivotsUsed' = pivotsUsed + 1 /\ pivotOffset' = n
    BY <1>0, <1>4 DEF Pivot, CanPivot, PivotType
  <2>6. pivotsUsed' \in 0..PlateauPivots
    BY <2>5, LimitsAssumption
  <2>7. PivotType'
    BY <2>1, <2>4, <2>5, <2>6 DEF PivotType
  <2>8. ToolType'
    BY <1>0, <2>3, <2>4 DEF BeginRefactor, ToolType
  <2>9. ControlType' /\ StoreType' /\ KeptType' /\ CallType' /\ CostType' /\ ReflectionType'
        /\ pc' = "refactor"
    BY <1>0, <2>3 DEF BeginRefactor, ControlType, StoreType, KeptType, CallType, CostType,
                      ReflectionType
  <2>10. RowsOK'
    BY <2>1, <2>3 DEF BeginRefactor, RowsOK, AfterBaseline
  <2> QED BY <2>7, <2>8, <2>9, <2>10 DEF TypeOK
<1>5. CASE RetryRefactor
  <2>1. PICK cost \in Costs : CallRefiner(cost)
    BY <1>5 DEF RetryRefactor
  <2>2. tree' \in Trees /\ edits' \in Nat /\ elapsed' \in 0..ClockBound /\ burnt' \in Nat
    BY <1>0, <2>1, CallRefinerType
  <2>3. retries \in 0..MaxToolRetries /\ retries < MaxToolRetries /\ retries' = retries + 1
    BY <1>0, <1>5 DEF RetryRefactor, CallType
  <2>4. retries' \in 0..MaxToolRetries
    BY <2>3, LimitsAssumption
  <2>5. ToolType' /\ CallType' /\ CostType'
    BY <1>0, <1>5, <2>2, <2>4 DEF RetryRefactor, ToolType, CallType, CostType
  <2>6. ControlType' /\ StoreType' /\ KeptType' /\ PivotType' /\ ReflectionType'
        /\ pc' = "refactor"
    BY <1>0, <1>5 DEF RetryRefactor, ControlType, StoreType, KeptType, PivotType, ReflectionType
  <2>7. RowsOK'
    BY <1>5 DEF RetryRefactor, RowsOK, AfterBaseline
  <2> QED BY <2>5, <2>6, <2>7 DEF TypeOK
<1>6. CASE RefactorReturns
  <2>1. PICK cost \in Costs : CallRefiner(cost) /\ tokensSpent' = tokensSpent + cost
    BY <1>6 DEF RefactorReturns
  <2>2. /\ tree' \in Trees /\ edits' \in Nat /\ elapsed' \in 0..ClockBound
        /\ burnt' \in Nat /\ cost \in Nat
    BY <1>0, <2>1, CallRefinerType
  <2>3. tokensSpent' \in Nat
    BY <1>0, <2>1, <2>2 DEF CostType
  <2>4. 0 \in 0..MaxToolRetries
    BY LimitsAssumption
  <2>5. ToolType' /\ CallType' /\ CostType'
    BY <1>0, <1>6, <2>2, <2>3, <2>4 DEF RefactorReturns, ToolType, CallType, CostType
  <2>6. ControlType' /\ StoreType' /\ KeptType' /\ PivotType' /\ ReflectionType' /\ pc' = "judge"
    BY <1>0, <1>6 DEF RefactorReturns, ControlType, StoreType, KeptType, PivotType, ReflectionType
  <2>7. RowsOK'
    BY <1>6 DEF RefactorReturns, RowsOK, AfterBaseline
  <2> QED BY <2>5, <2>6, <2>7 DEF TypeOK
<1>7. CASE JudgeRefactor
  <2>1. PICK r \in Reports : Record(Row(r, "refactor"))
    BY <1>7 DEF JudgeRefactor
  <2>2. rows' \in Seq(RowSet) /\ n' \in Nat /\ n' = n + 1 /\ Len(rows') = Len(rows) + 1
    BY <1>0, <2>1, RowType, RecordType
  <2>3. n \in Nat /\ cards \subseteq Resolutions
    BY <1>0 DEF StoreType, CallType
  <2>4. {[iteration |-> n + 1, decision |-> c] : c \in cards}
            \subseteq [iteration : Nat, decision : Resolutions]
    BY <2>3
  <2>5. StoreType'
    BY <1>0, <1>7, <2>2, <2>4 DEF JudgeRefactor, StoreType
  <2>6. PICK d \in Durations : Elapse(d)
    BY <1>7 DEF JudgeRefactor
  <2>7. CostType'
    BY <1>0, <1>7, <2>6, ElapseType DEF JudgeRefactor, CostType
  <2>8. ControlType' /\ ToolType' /\ KeptType' /\ CallType' /\ PivotType' /\ ReflectionType'
        /\ pc' = "apply"
    BY <1>0, <1>7 DEF JudgeRefactor, ControlType, ToolType, KeptType, CallType, PivotType,
                      ReflectionType, Trees
  <2>9. kept \in 1..n /\ kept' = kept /\ Len(rows) = n
    BY <1>7 DEF JudgeRefactor, RowsOK, AfterBaseline
  <2>10. RowsOK'
    BY <2>2, <2>3, <2>8, <2>9 DEF RowsOK
  <2> QED BY <2>5, <2>7, <2>8, <2>10 DEF TypeOK
<1>8. CASE SafetyHalt
  <2>1. ToolType'
    BY <1>0, <1>8, RestoredType DEF SafetyHalt, Restore, ToolType
  <2>2. ControlType' /\ StoreType' /\ KeptType' /\ CallType' /\ CostType' /\ PivotType'
        /\ ReflectionType' /\ pc' = "done"
    BY <1>0, <1>8 DEF SafetyHalt, ControlType, StoreType, KeptType, CallType, CostType,
                      PivotType, ReflectionType
  <2>3. RowsOK'
    BY <1>8 DEF SafetyHalt, RowsOK, AfterBaseline
  <2> QED BY <2>1, <2>2, <2>3 DEF TypeOK
<1>9. CASE Reverse \/ RollBack
  <2>1. ToolType'
    BY <1>0, <1>9, RestoredType DEF Reverse, RollBack, Restore, ToolType
  <2>2. kept \in 1..n /\ Len(rows) = n
    BY <1>9 DEF Reverse, RollBack, RowsOK, AfterBaseline
  <2>3. verdict \in Reports
    BY <1>0, <2>2, RowReport DEF verdict
  <2>4. Reflect(verdict, "reversed") \/ Reflect(verdict, "rolled_back")
    BY <1>9 DEF Reverse, RollBack
  <2>5. ReflectionType'
    BY <1>0, <2>3, <2>4, ReflectTypes
  <2>6. ControlType' /\ StoreType' /\ KeptType' /\ CallType' /\ CostType' /\ PivotType'
        /\ pc' = "evaluate"
    BY <1>0, <1>9 DEF Reverse, RollBack, ControlType, StoreType, KeptType, CallType, CostType,
                      PivotType
  <2>7. RowsOK'
    BY <1>9 DEF Reverse, RollBack, RowsOK, AfterBaseline
  <2> QED BY <2>1, <2>5, <2>6, <2>7 DEF TypeOK
<1>10. CASE Accept
  <2>1. kept \in 1..n /\ Len(rows) = n /\ n \in Nat /\ n \in 1..n /\ kept' = n /\ n' = n
    BY <1>0, <1>10 DEF Accept, RowsOK, AfterBaseline, StoreType
  <2>2. newVerdict \in Reports
    BY <1>0, <2>1, RowReport DEF newVerdict
  <2>3. ReflectionType'
    <3>1. CASE Reflect(newVerdict, "accepted")
      BY <1>0, <2>2, <3>1, ReflectTypes
    <3>2. CASE UNCHANGED reflectVars
      BY <1>0, <3>2 DEF ReflectionType
    <3> QED BY <1>10, <3>1, <3>2 DEF Accept
  <2>4. learnings' \in Seq(Nat) /\ lineage' \in Seq(Nat)
    BY <1>0, <1>10, <2>1, AppendProperties DEF Accept, StoreType, KeptType
  <2>5. KeptType' /\ StoreType'
    BY <1>0, <1>10, <2>1, <2>4 DEF Accept, StoreType, KeptType
  <2>6. pc' \in {"compress", "evaluate"}
    BY <1>10 DEF Accept
  <2>7. ControlType' /\ ToolType' /\ CallType' /\ CostType' /\ PivotType'
    BY <1>0, <1>10, <2>6 DEF Accept, ControlType, ToolType, CallType, CostType, PivotType, Trees
  <2>8. RowsOK'
    BY <1>10, <2>1, <2>6 DEF Accept, RowsOK, AfterBaseline
  <2> QED BY <2>3, <2>5, <2>6, <2>7, <2>8 DEF TypeOK
<1>11. CASE SkipCompression
  <2>1. PICK r \in Reports : KeepCompressed(Row(r, "compression"))
    BY <1>11 DEF SkipCompression
  <2>2. Row(r, "compression") \in RowSet
    BY <1>0, RowType
  <2>3. /\ rows' \in Seq(RowSet) /\ n' \in Nat /\ KeptType' /\ CallType' /\ CostType'
        /\ PivotType' /\ ReflectionType' /\ ControlType' /\ RowsOK' /\ pc' = "evaluate"
    BY <2>1, <2>2, KeepCompressedType
  <2>4. forkCards' = forkCards /\ token' = token /\ edits' = edits
    BY <2>1 DEF KeepCompressed
  <2>5. StoreType' /\ ToolType'
    BY <1>0, <1>11, <2>3, <2>4 DEF SkipCompression, StoreType, ToolType
  <2> QED BY <2>3, <2>5 DEF TypeOK
<1>12. CASE Consolidate
  <2>1. PICK cost \in Costs : CallRefiner(cost)
    BY <1>12 DEF Consolidate
  <2>2. tree' \in Trees /\ edits' \in Nat /\ elapsed' \in 0..ClockBound /\ burnt' \in Nat
    BY <1>0, <2>1, CallRefinerType
  <2>3. before' \in RowSet
    BY <1>0, <1>12, RowType DEF Consolidate
  <2>4. ToolType' /\ CostType'
    BY <1>0, <1>12, <2>2 DEF Consolidate, ToolType, CostType
  <2>5. ControlType' /\ StoreType' /\ KeptType' /\ CallType' /\ PivotType' /\ ReflectionType'
    BY <1>0, <1>12 DEF Consolidate, ControlType, StoreType, KeptType, CallType, PivotType,
                       ReflectionType
  <2>6. RowsOK'
    BY <1>12 DEF Consolidate, RowsOK, AfterBaseline
  <2> QED BY <2>3, <2>4, <2>5, <2>6 DEF TypeOK
<1>13. CASE AcceptCompression
  <2>1. PICK r \in Reports : KeepCompressed(Row(r, "compression"))
    BY <1>13 DEF AcceptCompression
  <2>2. Row(r, "compression") \in RowSet
    BY <1>0, RowType
  <2>3. /\ rows' \in Seq(RowSet) /\ n' \in Nat /\ KeptType' /\ CallType' /\ CostType'
        /\ PivotType' /\ ReflectionType' /\ ControlType' /\ RowsOK' /\ pc' = "evaluate"
    BY <2>1, <2>2, KeepCompressedType
  <2>4. forkCards' = forkCards /\ token' = token /\ edits' = edits
    BY <2>1 DEF KeepCompressed
  <2>5. learnings' \in Seq(Nat)
    BY <1>0, <1>13, AppendProperties DEF AcceptCompression, StoreType
  <2>6. StoreType' /\ ToolType'
    BY <1>0, <1>13, <2>3, <2>4, <2>5 DEF AcceptCompression, StoreType, ToolType
  <2> QED BY <2>3, <2>6 DEF TypeOK
<1>14. CASE RollBackCompression
  <2>1. before \in RowSet /\ KeepCompressed(before)
    BY <1>14 DEF RollBackCompression, TypeOK
  <2>2. /\ rows' \in Seq(RowSet) /\ n' \in Nat /\ KeptType' /\ CallType' /\ CostType'
        /\ PivotType' /\ ReflectionType' /\ ControlType' /\ RowsOK' /\ pc' = "evaluate"
    BY <2>1, KeepCompressedType
  <2>3. forkCards' = forkCards /\ token' = token /\ edits' = edits
    BY <2>1 DEF KeepCompressed
  <2>4. tree' \in Trees
    BY <1>0, <1>14, RestoredType DEF RollBackCompression, ToolType
  <2>5. StoreType' /\ ToolType'
    BY <1>0, <1>14, <2>2, <2>3, <2>4 DEF RollBackCompression, StoreType, ToolType
  <2> QED BY <2>2, <2>5 DEF TypeOK
<1>15. CASE Raise
  <2>1. ToolType'
    <3>1. CASE \E written \in SUBSET Paths : Edit(written)
      BY <1>0, <1>15, <3>1, EditType DEF Raise, ToolType
    <3>2. CASE UNCHANGED <<tree, edits>>
      BY <1>0, <1>15, <3>2 DEF Raise, ToolType
    <3> QED BY <1>15, <3>1, <3>2 DEF Raise
  <2>2. learnings' \in Seq(Nat)
    <3>1. n \in Nat /\ learnings \in Seq(Nat)
      BY <1>0 DEF StoreType
    <3>2. learnings' = learnings \/ learnings' = Append(learnings, n)
      BY <1>15 DEF Raise
    <3> QED BY <3>1, <3>2, AppendProperties
  <2>3. StoreType'
    BY <1>0, <1>15, <2>2 DEF Raise, StoreType
  <2>4. ControlType' /\ KeptType' /\ CallType' /\ CostType' /\ PivotType' /\ ReflectionType'
        /\ pc' = "raised"
    BY <1>0, <1>15 DEF Raise, ControlType, KeptType, CallType, CostType, PivotType,
                       ReflectionType
  <2>5. RowsOK'
    BY <1>15 DEF Raise, RowsOK, AfterBaseline
  <2> QED BY <2>1, <2>3, <2>4, <2>5 DEF TypeOK
<1>16. CASE UNCHANGED vars
  <2>1. /\ UNCHANGED <<pc, before, elapsed>> /\ UNCHANGED <<tree, edits, token>>
        /\ UNCHANGED <<rows, n, forkCards, learnings>> /\ UNCHANGED <<kept, lineage, accepted>>
        /\ UNCHANGED <<pivotsUsed, pivotOffset, activeExclude, targeted, lead>>
        /\ UNCHANGED <<tokensSpent, burnt, retries, cards, reflection, priorFails>>
        /\ UNCHANGED <<run, reason, reported>>
    BY <1>16 DEF vars
  <2>2. ControlType' /\ ToolType' /\ StoreType' /\ KeptType'
    BY <1>0, <2>1 DEF ControlType, ToolType, StoreType, KeptType, Trees
  <2>3. CallType' /\ CostType' /\ PivotType' /\ ReflectionType' /\ pc' = pc /\ before' = before
    BY <1>0, <2>1 DEF CallType, CostType, PivotType, ReflectionType
  <2>4. RowsOK'
    BY <2>1 DEF RowsOK, AfterBaseline
  <2> QED BY <2>2, <2>3, <2>4 DEF TypeOK
<1> QED BY <1>1, <1>2, <1>3, <1>4, <1>5, <1>6, <1>7, <1>8, <1>9, <1>10, <1>11, <1>12,
           <1>13, <1>14, <1>15, <1>16 DEF Next, Step

(* Every variable of the loop has its type, for every judge, refiner, budget
   and policy. *)
THEOREM TypeCorrect == Spec => []TypeOK
<1>1. TypeOK /\ RowsOK /\ [Next]_vars => (TypeOK /\ RowsOK)'
  BY TypeStep
<1> QED BY InitInv, <1>1, PTL DEF Spec

(* The counter n is the number of rows recorded, and the kept verdict has a
   row from the baseline on. *)
THEOREM Bookkeeping == Spec => [](TypeOK /\ RowsOK)
<1>1. TypeOK /\ RowsOK /\ [Next]_vars => (TypeOK /\ RowsOK)'
  BY TypeStep
<1> QED BY InitInv, <1>1, PTL DEF Spec

-----------------------------------------------------------------------------
(* Bounds.                                                                 *)

Compressing == pc \in {"compress", "compress_judge"}

(* How far the counter may be at each point of an iteration. *)
Progress ==
    /\ pc \in {"refactor", "judge"} => n < MaxIterations
    /\ pc = "apply" \/ Compressing => n <= MaxIterations
    /\ n <= MaxIterations + 1
    /\ ~Compressor => n <= MaxIterations /\ ~Compressing

(* A decision to go on, or to pivot, is taken only below max_iterations. *)
LEMMA BelowCap ==
    ASSUME Decision \in {"continue", "plateau"}, StoreType
    PROVE  n < MaxIterations
<1>1. n \in Nat
  BY DEF StoreType
<1>2. ~(n >= MaxIterations)
  BY DEF Decision, BudgetDecision
<1> QED BY <1>1, <1>2, LimitsAssumption

(* The bound holds when run() is called. *)
LEMMA InitProgress == Init => Progress
<1> SUFFICES ASSUME Init PROVE Progress
  OBVIOUS
<1>1. pc = "start" /\ n = 0
  BY DEF Init
<1> QED BY <1>1, LimitsAssumption DEF Progress, Compressing

(* Every step keeps the bound: a row is recorded only by a step that was
   allowed below the cap, or by the compression pass after it. *)
LEMMA ProgressStep == TypeOK /\ RowsOK /\ Progress /\ [Next]_vars => Progress'
<1> SUFFICES ASSUME TypeOK, RowsOK, Progress, [Next]_vars PROVE Progress'
  OBVIOUS
<1> USE DEF toolVars, storeVars, keptVars, pivotVars, costVars, reflectVars, callVars, endVars,
            Compressing
<1>0. StoreType /\ n \in Nat /\ MaxIterations \in Nat \ {0} /\ CompressionInterval \in Nat \ {0}
  BY LimitsAssumption, CompressionAssumption DEF TypeOK, StoreType
<1>1. CASE JudgeBaseline
  <2>1. pc' = "evaluate" /\ n = 0 /\ n' = n + 1
    BY <1>1 DEF JudgeBaseline, Record, RowsOK
  <2> QED BY <1>0, <2>1 DEF Progress
<1>2. CASE Finish
  <2>1. pc' = "done" /\ n' = n
    BY <1>2 DEF Finish
  <2> QED BY <2>1 DEF Progress
<1>3. CASE Continue \/ Pivot
  <2>1. pc' = "refactor" /\ n' = n /\ Decision \in {"continue", "plateau"}
    BY <1>3 DEF Continue, Pivot, CanPivot, BeginRefactor
  <2>2. n < MaxIterations
    BY <1>0, <2>1, BelowCap
  <2> QED BY <1>0, <2>1, <2>2 DEF Progress
<1>4. CASE RetryRefactor \/ RefactorReturns
  <2>1. pc = "refactor" /\ pc' \in {"refactor", "judge"} /\ n' = n
    BY <1>4 DEF RetryRefactor, RefactorReturns
  <2> QED BY <2>1 DEF Progress
<1>5. CASE JudgeRefactor
  <2>1. pc = "judge" /\ pc' = "apply" /\ n' = n + 1
    BY <1>5 DEF JudgeRefactor, Record
  <2> QED BY <1>0, <2>1 DEF Progress
<1>6. CASE SafetyHalt \/ Reverse \/ RollBack
  <2>1. pc' \in {"done", "evaluate"} /\ n' = n
    BY <1>6 DEF SafetyHalt, Reverse, RollBack
  <2> QED BY <2>1 DEF Progress
<1>7. CASE Accept
  <2>1. /\ pc = "apply" /\ n' = n
        /\ (pc' = "compress" /\ Compressor) \/ pc' = "evaluate"
    BY <1>7 DEF Accept
  <2> QED BY <2>1, CompressionAssumption DEF Progress
<1>8. CASE SkipCompression \/ AcceptCompression \/ RollBackCompression
  <2>1. Compressing /\ pc' = "evaluate" /\ n' = n + 1
    BY <1>8 DEF SkipCompression, AcceptCompression, RollBackCompression, KeepCompressed, Record
  <2> QED BY <1>0, <2>1 DEF Progress
<1>9. CASE Consolidate
  <2>1. pc = "compress" /\ pc' = "compress_judge" /\ n' = n
    BY <1>9 DEF Consolidate
  <2> QED BY <2>1 DEF Progress
<1>10. CASE Raise
  <2>1. pc' = "raised" /\ n' = n
    BY <1>10 DEF Raise
  <2> QED BY <2>1 DEF Progress
<1>11. CASE UNCHANGED vars
  <2>1. pc' = pc /\ n' = n
    BY <1>11 DEF vars
  <2> QED BY <2>1 DEF Progress
<1> QED BY <1>1, <1>2, <1>3, <1>4, <1>5, <1>6, <1>7, <1>8, <1>9, <1>10, <1>11 DEF Next, Step

-----------------------------------------------------------------------------
(* Rows are only ever appended.                                            *)

(* A recorded row stays what it is, and the one recorded is the last. *)
LEMMA RecordKeeps ==
    ASSUME StoreType, Len(rows) = n, NEW row \in RowSet, Record(row)
    PROVE  /\ n' = n + 1 /\ rows'[n + 1] = row
           /\ \A k \in 1..n : rows'[k] = rows[k]
BY AppendProperties DEF Record, StoreType

(* The row that each step of run() records, if any. *)
Recorded ==
    \/ rows' = rows /\ n' = n
    \/ \E row \in RowSet : Record(row)

(* Every step records one row at most. *)
LEMMA StepRecords ==
    ASSUME TypeOK, [Next]_vars
    PROVE  Recorded
<1> USE DEF toolVars, storeVars, keptVars, pivotVars, costVars, reflectVars, callVars, endVars
<1>0. ToolType /\ (pc = "compress_judge" => before \in RowSet)
  BY DEF TypeOK
<1>1. CASE JudgeBaseline
  BY <1>0, <1>1, RowType DEF JudgeBaseline, Recorded
<1>2. CASE JudgeRefactor
  BY <1>0, <1>2, RowType DEF JudgeRefactor, Recorded
<1>3. CASE SkipCompression \/ AcceptCompression
  BY <1>0, <1>3, RowType DEF SkipCompression, AcceptCompression, KeepCompressed, Recorded
<1>4. CASE RollBackCompression
  BY <1>0, <1>4 DEF RollBackCompression, KeepCompressed, Recorded
<1>5. CASE \/ Finish \/ Continue \/ Pivot \/ RetryRefactor \/ RefactorReturns \/ SafetyHalt
           \/ Reverse \/ RollBack \/ Accept \/ Consolidate \/ Raise \/ UNCHANGED vars
  BY <1>5 DEF Finish, Continue, Pivot, BeginRefactor, RetryRefactor, RefactorReturns, SafetyHalt,
              Reverse, RollBack, Accept, Consolidate, Raise, vars, Recorded
<1> QED BY <1>1, <1>2, <1>3, <1>4, <1>5 DEF Next, Step

(* So a row, once recorded, is never changed. *)
LEMMA RowsStay ==
    ASSUME TypeOK, RowsOK, [Next]_vars
    PROVE  /\ n' \in {n, n + 1} /\ n \in Nat
           /\ \A k \in 1..n : rows'[k] = rows[k]
BY StepRecords, RecordKeeps DEF Recorded, TypeOK, RowsOK, StoreType

-----------------------------------------------------------------------------
(* The bound on the rows.                                                  *)

(* A row past the cap is one of the compression pass. *)
ExcessOK ==
    /\ pc = "compress_judge" => before.diff = "compression"
    /\ n = MaxIterations + 1 => rows[n].diff = "compression"

(* No other step records past the cap. *)
LEMMA ExcessStep ==
    ASSUME TypeOK, RowsOK, Progress, ExcessOK, [Next]_vars
    PROVE  ExcessOK'
<1> USE DEF toolVars, storeVars, keptVars, pivotVars, costVars, reflectVars, callVars, endVars
<1>0. /\ StoreType /\ ToolType /\ Len(rows) = n /\ n \in Nat /\ MaxIterations \in Nat \ {0}
      /\ pc = "compress_judge" => before \in RowSet
  BY LimitsAssumption DEF TypeOK, RowsOK, StoreType
<1>1. CASE JudgeBaseline \/ JudgeRefactor
  <2>1. n' = n + 1 /\ n < MaxIterations /\ pc' # "compress_judge"
    BY <1>0, <1>1 DEF JudgeBaseline, JudgeRefactor, Record, RowsOK, Progress
  <2> QED BY <1>0, <2>1 DEF ExcessOK
<1>2. CASE SkipCompression \/ AcceptCompression
  <2>1. PICK r \in Reports : KeepCompressed(Row(r, "compression"))
    BY <1>2 DEF SkipCompression, AcceptCompression
  <2>2. rows'[n'] = Row(r, "compression") /\ pc' = "evaluate"
    BY <1>0, <2>1, RowType, RecordKeeps DEF KeepCompressed
  <2> QED BY <2>2 DEF ExcessOK, Row
<1>3. CASE RollBackCompression
  <2>1. pc = "compress_judge" /\ KeepCompressed(before)
    BY <1>3 DEF RollBackCompression
  <2>2. rows'[n'] = before /\ pc' = "evaluate"
    BY <1>0, <2>1, RecordKeeps DEF KeepCompressed
  <2> QED BY <2>1, <2>2 DEF ExcessOK
<1>4. CASE Consolidate
  <2>1. PICK r \in Reports : before' = Row(r, "compression")
    BY <1>4 DEF Consolidate
  <2>2. n' = n /\ rows' = rows
    BY <1>4 DEF Consolidate
  <2> QED BY <2>1, <2>2 DEF ExcessOK, Row
<1>5. CASE \/ Finish \/ Continue \/ Pivot \/ RetryRefactor \/ RefactorReturns \/ SafetyHalt
           \/ Reverse \/ RollBack \/ Accept \/ Raise \/ UNCHANGED vars
  <2>1. n' = n /\ rows' = rows /\ before' = before /\ (pc' = "compress_judge" => pc' = pc)
    BY <1>5 DEF Finish, Continue, Pivot, BeginRefactor, RetryRefactor, RefactorReturns,
                SafetyHalt, Reverse, RollBack, Accept, Raise, vars
  <2> QED BY <2>1 DEF ExcessOK
<1> QED BY <1>1, <1>2, <1>3, <1>4, <1>5 DEF Next, Step

(* max_iterations bounds the attempts, whatever the judge answers; past it there
   is at most one row, of the compression pass, and each attempt has its row. *)
THEOREM IterationsBounded == Spec => []IterationBound
<1> DEFINE Inv == TypeOK /\ RowsOK /\ Progress /\ ExcessOK
<1>1. Init => Inv
  <2>1. Init => ExcessOK
    <3> SUFFICES ASSUME Init PROVE ExcessOK
      OBVIOUS
    <3>1. pc = "start" /\ n = 0
      BY DEF Init
    <3> QED BY <3>1, LimitsAssumption DEF ExcessOK
  <2> QED BY <2>1, InitInv, InitProgress
<1>2. Inv /\ [Next]_vars => Inv'
  BY TypeStep, ProgressStep, ExcessStep
<1>3. Inv => IterationBound
  BY LimitsAssumption DEF RowsOK, Progress, ExcessOK, IterationBound, TypeOK, StoreType
<1> QED BY <1>1, <1>2, <1>3, PTL DEF Spec

-----------------------------------------------------------------------------
(* The tool on disk.                                                       *)

(* No path of the tree is missing, so a reset restores all of it. *)
Whole(t) == \A p \in Paths : t[p] # Absent

DiskOK ==
    /\ Whole(tree) /\ Whole(token)
    /\ pc \in {"evaluate", "done", "compress"} => tree = rows[kept].of
    /\ pc \in {"refactor", "judge", "apply"} => token = rows[kept].of
    /\ pc = "apply" => tree = rows[n].of
    /\ pc = "compress_judge" => token = before.of

(* git reset --hard brings a whole snapshot back as it was. *)
LEMMA RestoresWhole ==
    ASSUME NEW t \in Trees, Whole(t)
    PROVE  Restored(t) = t
BY DEF Restored, Trees, Whole

(* A refiner call leaves every path there. *)
LEMMA EditWhole ==
    ASSUME Whole(tree), ToolType, NEW written, Edit(written)
    PROVE  Whole(tree')
<1>1. edits + 1 \in Nat /\ edits + 1 # Absent
  BY PathsAssumption DEF ToolType
<1> QED BY <1>1 DEF Edit, Whole

(* Every step of run() keeps the disk, the snapshot and the rows in line. *)
LEMMA DiskStep ==
    ASSUME TypeOK, RowsOK, DiskOK, [Next]_vars
    PROVE  DiskOK'
<1> USE DEF toolVars, storeVars, keptVars, pivotVars, costVars, reflectVars, callVars, endVars
<1>0. /\ ToolType /\ StoreType /\ Len(rows) = n /\ n \in Nat
      /\ AfterBaseline => kept \in 1..n
  BY DEF TypeOK, RowsOK, StoreType
<1>1. \A k \in 1..n : rows'[k] = rows[k]
  BY RowsStay
<1>2. CASE JudgeBaseline
  <2>1. PICK r \in Reports : Record(Row(r, "initial"))
    BY <1>2 DEF JudgeBaseline
  <2>2. n = 0 /\ kept' = 1 /\ rows'[1] = Row(r, "initial")
    BY <1>0, <1>2, <2>1, RowType, RecordKeeps DEF JudgeBaseline, RowsOK
  <2>3. pc' = "evaluate" /\ tree' = tree /\ token' = token
    BY <1>2 DEF JudgeBaseline
  <2> QED BY <2>2, <2>3 DEF DiskOK, Row
<1>3. CASE Finish \/ UNCHANGED vars
  <2>1. /\ tree' = tree /\ token' = token /\ kept' = kept /\ rows' = rows /\ n' = n
        /\ before' = before /\ (pc' = pc \/ (pc = "evaluate" /\ pc' = "done"))
    BY <1>3 DEF Finish, vars
  <2> QED BY <2>1 DEF DiskOK, Whole
<1>4. CASE Continue \/ Pivot
  <2>1. /\ pc = "evaluate" /\ pc' = "refactor" /\ tree' = tree /\ token' = tree
        /\ kept' = kept /\ rows' = rows
    BY <1>4 DEF Continue, Pivot, BeginRefactor
  <2> QED BY <2>1 DEF DiskOK, Whole
<1>5. CASE RetryRefactor \/ RefactorReturns
  <2>1. /\ pc = "refactor" /\ pc' \in {"refactor", "judge"} /\ token' = token
        /\ kept' = kept /\ rows' = rows
    BY <1>5 DEF RetryRefactor, RefactorReturns
  <2>2. Whole(tree')
    BY <1>0, <1>5, EditWhole DEF RetryRefactor, RefactorReturns, CallRefiner, DiskOK
  <2> QED BY <2>1, <2>2 DEF DiskOK, Whole
<1>6. CASE JudgeRefactor
  <2>1. PICK r \in Reports : Record(Row(r, "refactor"))
    BY <1>6 DEF JudgeRefactor
  <2>2. n' = n + 1 /\ rows'[n + 1] = Row(r, "refactor")
    BY <1>0, <2>1, RowType, RecordKeeps
  <2>3. /\ pc = "judge" /\ pc' = "apply" /\ tree' = tree /\ token' = token /\ kept' = kept
        /\ kept \in 1..n
    BY <1>0, <1>6 DEF JudgeRefactor, AfterBaseline
  <2> QED BY <1>1, <2>2, <2>3 DEF DiskOK, Whole, Row
<1>7. CASE SafetyHalt \/ Reverse \/ RollBack
  <2>1. /\ pc = "apply" /\ pc' \in {"done", "evaluate"} /\ Restore /\ kept' = kept
        /\ rows' = rows
    BY <1>7 DEF SafetyHalt, Reverse, RollBack
  <2>2. tree' = token /\ token' = token
    BY <1>0, <2>1, RestoresWhole DEF Restore, DiskOK, ToolType
  <2> QED BY <2>1, <2>2 DEF DiskOK, Whole
<1>8. CASE Accept
  <2>1. /\ pc = "apply" /\ pc' \in {"compress", "evaluate"} /\ tree' = tree /\ token' = token
        /\ kept' = n /\ rows' = rows
    BY <1>8 DEF Accept
  <2> QED BY <2>1 DEF DiskOK, Whole
<1>9. CASE SkipCompression
  <2>1. PICK r \in Reports : KeepCompressed(Row(r, "compression"))
    BY <1>9 DEF SkipCompression
  <2>2. rows'[n + 1] = Row(r, "compression") /\ kept' = n + 1 /\ pc' = "evaluate"
    BY <1>0, <2>1, RowType, RecordKeeps DEF KeepCompressed
  <2>3. tree' = tree /\ token' = token
    BY <1>9, <2>1 DEF SkipCompression, KeepCompressed
  <2> QED BY <2>2, <2>3 DEF DiskOK, Whole, Row
<1>10. CASE Consolidate
  <2>1. PICK r \in Reports : before' = Row(r, "compression")
    BY <1>10 DEF Consolidate
  <2>2. token' = tree /\ pc' = "compress_judge" /\ before'.of = tree
    BY <1>10, <2>1 DEF Consolidate, Row
  <2>3. Whole(tree')
    BY <1>0, <1>10, EditWhole DEF Consolidate, CallRefiner, DiskOK
  <2> QED BY <2>2, <2>3 DEF DiskOK, Whole
<1>11. CASE AcceptCompression
  <2>1. PICK r \in Reports : KeepCompressed(Row(r, "compression"))
    BY <1>11 DEF AcceptCompression
  <2>2. rows'[n + 1] = Row(r, "compression") /\ kept' = n + 1 /\ pc' = "evaluate"
    BY <1>0, <2>1, RowType, RecordKeeps DEF KeepCompressed
  <2>3. tree' = tree /\ token' = token
    BY <1>11, <2>1 DEF AcceptCompression, KeepCompressed
  <2> QED BY <2>2, <2>3 DEF DiskOK, Whole, Row
<1>12. CASE RollBackCompression
  <2>1. /\ pc = "compress_judge" /\ before \in RowSet /\ KeepCompressed(before)
        /\ tree' = Restored(token)
    BY <1>12 DEF RollBackCompression, TypeOK
  <2>2. rows'[n + 1] = before /\ kept' = n + 1 /\ pc' = "evaluate" /\ token' = token
    BY <1>0, <2>1, RecordKeeps DEF KeepCompressed
  <2>3. tree' = token
    BY <1>0, <2>1, RestoresWhole DEF DiskOK, ToolType
  <2> QED BY <2>1, <2>2, <2>3 DEF DiskOK, Whole
<1>13. CASE Raise
  <2>1. pc' = "raised" /\ token' = token
    BY <1>13 DEF Raise
  <2>2. Whole(tree')
    BY <1>0, <1>13, EditWhole DEF Raise, DiskOK
  <2> QED BY <2>1, <2>2 DEF DiskOK, Whole
<1> QED BY <1>2, <1>3, <1>4, <1>5, <1>6, <1>7, <1>8, <1>9, <1>10, <1>11, <1>12, <1>13
        DEF Next, Step

(* At the start the adopted tool is whole, unless a refactor may create files. *)
LEMMA InitDisk == ASSUME NewPaths = {} PROVE Init => DiskOK
<1> SUFFICES ASSUME Init PROVE DiskOK
  OBVIOUS
<1>1. tree = [p \in Paths |-> 0] /\ token = tree /\ pc = "start"
  BY DEF Init
<1> QED BY <1>1, PathsAssumption DEF DiskOK, Whole

(* As long as refactors create no files, whenever run() decides or has ended
   the tool on disk is the one the kept verdict graded: no retry, rejection,
   reversal, safety halt or compression leaves another one behind. *)
THEOREM DiskTheorem == ASSUME NewPaths = {} PROVE Spec => []TreeIsGraded
<1>1. Init => TypeOK /\ RowsOK /\ DiskOK
  BY InitInv, InitDisk
<1>2. (TypeOK /\ RowsOK /\ DiskOK) /\ [Next]_vars => (TypeOK /\ RowsOK /\ DiskOK)'
  BY TypeStep, DiskStep
<1>3. DiskOK => TreeIsGraded
  BY DEF DiskOK, TreeIsGraded
<1> QED BY <1>1, <1>2, <1>3, PTL DEF Spec

-----------------------------------------------------------------------------
(* The run is over exactly when run() is, and is a success only on a safe
   verdict at target. *)
EndOK ==
    /\ pc # "done" => run = "running"
    /\ run = "converged" => verdict.safe /\ ReachedTarget(verdict) /\ reported = kept

(* What evaluate() must have seen to say converged, or go on. *)
LEMMA DecisionMeans ==
    /\ Decision = "converged" => verdict.safe /\ ReachedTarget(verdict)
    /\ Decision \in {"continue", "plateau"} => verdict.safe
    /\ Terminal(Decision) \in {"converged", "stopped", "blocked_safety"}
    /\ Terminal(Decision) = "converged" => Decision = "converged"
    /\ Decision # "refactor_unsafe"
BY DEF Decision, BudgetDecision, Terminal

(* While the kept row stays the same, so does its verdict. *)
LEMMA VerdictStays ==
    ASSUME TypeOK, RowsOK, [Next]_vars, AfterBaseline, kept' = kept
    PROVE  rows'[kept'] = rows[kept]
BY RowsStay DEF RowsOK

(* Nothing happens any more once run() has ended. *)
LEMMA EndStays ==
    ASSUME pc \in {"done", "raised"}, [Next]_vars
    PROVE  UNCHANGED vars
BY DEF Next, Step, JudgeBaseline, Finish, Continue, Pivot, RetryRefactor, RefactorReturns,
       JudgeRefactor, SafetyHalt, Reverse, RollBack, Accept, SkipCompression, Consolidate,
       AcceptCompression, RollBackCompression, Raise

(* What each step does to the runs row. *)
LEMMA RunStep ==
    ASSUME [Next]_vars
    PROVE  \/ UNCHANGED vars
           \/ endVars' = endVars /\ pc \notin {"done", "raised"} /\ pc' # "done"
           \/ Finish
           \/ SafetyHalt
<1> USE DEF toolVars, storeVars, keptVars, pivotVars, costVars, reflectVars, callVars, endVars
<1>1. CASE JudgeBaseline \/ Continue \/ Pivot \/ RetryRefactor \/ RefactorReturns
  BY <1>1 DEF JudgeBaseline, Continue, Pivot, BeginRefactor, RetryRefactor, RefactorReturns
<1>2. CASE JudgeRefactor \/ Reverse \/ RollBack \/ Accept
  BY <1>2 DEF JudgeRefactor, Reverse, RollBack, Accept
<1>3. CASE SkipCompression \/ Consolidate \/ AcceptCompression \/ RollBackCompression \/ Raise
  BY <1>3 DEF SkipCompression, Consolidate, AcceptCompression, RollBackCompression,
              KeepCompressed, Raise
<1> QED BY <1>1, <1>2, <1>3 DEF Next, Step

(* The end of a run says what it stands on. *)
LEMMA EndStep ==
    ASSUME TypeOK, RowsOK, EndOK, [Next]_vars
    PROVE  EndOK'
<1> USE DEF toolVars, storeVars, keptVars, pivotVars, costVars, reflectVars, callVars, endVars
<1>1. CASE UNCHANGED vars
  BY <1>1 DEF EndOK, vars, verdict, ReachedTarget
<1>2. CASE endVars' = endVars /\ pc \notin {"done", "raised"} /\ pc' # "done"
  <2>1. run' = "running"
    BY <1>2 DEF EndOK
  <2> QED BY <2>1 DEF EndOK
<1>3. CASE Finish
  <2>1. /\ pc' = "done" /\ run' = Terminal(Decision) /\ rows' = rows /\ kept' = kept
        /\ reported' = kept
    BY <1>3 DEF Finish
  <2>2. verdict' = verdict
    BY <2>1 DEF verdict
  <2>3. run' = "converged" => verdict'.safe /\ ReachedTarget(verdict')
    BY <2>1, <2>2, DecisionMeans
  <2> QED BY <2>1, <2>3 DEF EndOK, ReachedTarget
<1>4. CASE SafetyHalt
  BY <1>4 DEF SafetyHalt, EndOK
<1> QED BY <1>1, <1>2, <1>3, <1>4, RunStep

-----------------------------------------------------------------------------
(* The loop implements GradedTool.                                         *)

best == IF kept = 0 THEN NoReport ELSE rows[kept].rep

(* From the baseline on the tool has a verdict. *)
LEMMA BestGraded ==
    ASSUME TypeOK, RowsOK, AfterBaseline
    PROVE  best = verdict /\ best \in Reports /\ best # NoReport
BY RowReport, NoReportAssumption DEF TypeOK, RowsOK, best, verdict

(* A step of run() is a step of the promise, or none. *)
LEMMA PromiseStep ==
    ASSUME TypeOK, RowsOK, Progress, EndOK, [Next]_vars, ~Compressor
    PROVE  [Graded!PromiseNext]_(Graded!promised)
<1> USE DEF toolVars, storeVars, keptVars, pivotVars, costVars, reflectVars, callVars, endVars
<1>0. /\ ToolType /\ StoreType /\ Len(rows) = n
      /\ ~Compressing
  BY DEF TypeOK, RowsOK, Progress
<1>a. SUFFICES \/ best' = best /\ run' = run
               \/ best = NoReport /\ best' \in Reports /\ run' = run
               \/ /\ run = "running" /\ best # NoReport
                  /\ best' \in Reports /\ best'.safe /\ best \in Reports
                  /\ IsImprovement(best, best') /\ run' = run
               \/ /\ run = "running" /\ best \in Reports /\ best.safe /\ ReachedTarget(best)
                  /\ run' = "converged" /\ best' = best
               \/ /\ run = "running" /\ best # NoReport
                  /\ run' \in {"stopped", "blocked_safety"} /\ best' = best
  BY DEF Graded!PromiseNext, Graded!promised, Graded!Baseline, Graded!Improve, Graded!Ship,
         Graded!GiveUp, best
<1>1. CASE JudgeBaseline
  <2>1. PICK r \in Reports : Record(Row(r, "initial"))
    BY <1>1 DEF JudgeBaseline
  <2>2. n = 0 /\ kept = 0 /\ kept' = 1 /\ run' = run
    BY <1>1 DEF JudgeBaseline, RowsOK
  <2>3. rows'[1] = Row(r, "initial")
    BY <1>0, <2>1, <2>2, RowType, RecordKeeps
  <2> QED BY <2>2, <2>3 DEF best, Row
<1>2. CASE Finish
  <2>1. /\ pc = "evaluate" /\ run' = Terminal(Decision) /\ rows' = rows /\ kept' = kept
    BY <1>2 DEF Finish
  <2>2. best' = best /\ run = "running" /\ AfterBaseline
    BY <2>1 DEF best, EndOK, AfterBaseline
  <2>3. best = verdict /\ best \in Reports /\ best # NoReport
    BY <2>2, BestGraded
  <2> QED BY <2>1, <2>2, <2>3, DecisionMeans
<1>3. CASE Accept
  <2>1. /\ pc = "apply" /\ Improved /\ kept' = n /\ rows' = rows /\ run' = run
    BY <1>3 DEF Accept
  <2>2. run = "running" /\ AfterBaseline
    BY <2>1 DEF EndOK, AfterBaseline
  <2>3. best = verdict /\ best \in Reports /\ best # NoReport
    BY <2>2, BestGraded
  <2>4. n \in Nat /\ n # 0 /\ n \in 1..n
    BY <1>0, <2>2 DEF RowsOK, StoreType
  <2>5. best' = newVerdict /\ newVerdict \in Reports
    BY <1>0, <2>1, <2>4, RowReport DEF best, newVerdict
  <2> QED BY <2>1, <2>2, <2>3, <2>5 DEF Improved
<1>4. CASE SafetyHalt
  <2>1. /\ pc = "apply" /\ kept' = kept /\ rows' = rows /\ run' = "blocked_safety"
    BY <1>4 DEF SafetyHalt
  <2>2. best' = best /\ run = "running" /\ AfterBaseline
    BY <2>1 DEF best, EndOK, AfterBaseline
  <2> QED BY <2>1, <2>2, BestGraded
<1>5. CASE JudgeRefactor
  <2>1. pc = "judge" /\ kept' = kept /\ run' = run
    BY <1>5 DEF JudgeRefactor
  <2>2. rows'[kept'] = rows[kept]
    BY <2>1, VerdictStays DEF AfterBaseline
  <2> QED BY <2>1, <2>2 DEF best
<1>6. CASE \/ Continue \/ Pivot \/ RetryRefactor \/ RefactorReturns \/ Reverse \/ RollBack
           \/ Raise \/ UNCHANGED vars
  <2>1. kept' = kept /\ rows' = rows /\ run' = run
    BY <1>6 DEF Continue, Pivot, BeginRefactor, RetryRefactor, RefactorReturns, Reverse, RollBack,
                Raise, vars
  <2> QED BY <2>1 DEF best
<1>7. ~(SkipCompression \/ Consolidate \/ AcceptCompression \/ RollBackCompression)
  BY <1>0 DEF SkipCompression, Consolidate, AcceptCompression, RollBackCompression, Compressing
<1> QED BY <1>1, <1>2, <1>3, <1>4, <1>5, <1>6, <1>7 DEF Next, Step

(* Without a compression engine, the verdict that run() stands by changes only
   for a safe one that improves on it, the run ends once, and it ends as
   converged only on a safe verdict at target. *)
THEOREM PromiseKept == ASSUME ~Compressor PROVE Spec => KeepsPromise
<1>1. Init => TypeOK /\ RowsOK /\ Progress /\ EndOK
  <2>1. Init => EndOK
    BY DEF Init, EndOK
  <2> QED BY <2>1, InitInv, InitProgress
<1>2. TypeOK /\ RowsOK /\ Progress /\ EndOK /\ [Next]_vars
        => (TypeOK /\ RowsOK /\ Progress /\ EndOK)'
  BY TypeStep, ProgressStep, EndStep
<1>3. Init => Graded!PromiseInit
  BY DEF Init, Graded!PromiseInit
<1>4. TypeOK /\ RowsOK /\ Progress /\ EndOK /\ [Next]_vars
        => [Graded!PromiseNext]_(Graded!promised)
  BY PromiseStep
<1> QED BY <1>1, <1>2, <1>3, <1>4, PTL DEF Spec, KeepsPromise, Graded!PromiseSpec

-----------------------------------------------------------------------------
(* The lineage: every row that has been the kept one.                      *)

CardsUpTo(k) == \A f \in forkCards : f.iteration <= k

(* Its entries are rows, none of them reversed. *)
EntriesOK == \A i \in DOMAIN lineage : lineage[i] \in 1..n /\ ~Reversed(lineage[i])

LineageOK ==
    /\ EntriesOK
    /\ AfterBaseline => lineage # <<>> /\ lineage[Len(lineage)] = kept
    /\ CardsUpTo(n)
    /\ pc = "apply" => (Reversed(n) => ForkReversal)
    /\ pc = "compress_judge" => before.diff = "compression"
    /\ LineageImproves

(* A row is a step forward from another one. *)
StepUp(k, l) ==
    IsRefactor(l) => /\ rows[l].rep.safe /\ ~Reversed(l)
                     /\ IsImprovement(rows[k].rep, rows[l].rep)

(* A step that keeps no other row leaves the lineage as good as it was, even
   when it records a row and its fork cards. *)
LEMMA LineageStays ==
    ASSUME TypeOK, RowsOK, LineageOK, [Next]_vars, lineage' = lineage,
           \A f \in forkCards' : f \in forkCards \/ (n' = n + 1 /\ f.iteration = n + 1)
    PROVE  /\ EntriesOK'
           /\ CardsUpTo(n)'
           /\ LineageImproves'
<1>0. /\ n \in Nat /\ n' \in {n, n + 1} /\ lineage \in Seq(Nat)
      /\ forkCards \subseteq [iteration : Nat, decision : Resolutions]
      /\ \A k \in 1..n : rows'[k] = rows[k]
      /\ \A i \in DOMAIN lineage : lineage[i] \in 1..n
      /\ CardsUpTo(n)
  BY RowsStay DEF TypeOK, StoreType, KeptType, LineageOK, EntriesOK
<1>1. \A k \in 1..n : Reversed(k)' => Reversed(k)
  BY <1>0 DEF Reversed
<1>2. \A f \in forkCards' : f.iteration <= n'
  BY <1>0 DEF CardsUpTo
<1>3. EntriesOK'
  BY <1>0, <1>1 DEF LineageOK, EntriesOK
<1>4. ASSUME NEW i \in DOMAIN lineage \ {1}
      PROVE  StepUp(lineage[i-1], lineage[i])'
  <2>1. i - 1 \in DOMAIN lineage /\ lineage[i-1] \in 1..n /\ lineage[i] \in 1..n
    BY <1>0
  <2>2. rows'[lineage[i-1]] = rows[lineage[i-1]] /\ rows'[lineage[i]] = rows[lineage[i]]
    BY <1>0, <2>1
  <2>3. StepUp(lineage[i-1], lineage[i])
    BY DEF LineageOK, LineageImproves, StepUp
  <2> QED BY <1>1, <2>1, <2>2, <2>3 DEF StepUp, IsRefactor
<1>5. LineageImproves'
  BY <1>4 DEF LineageImproves, StepUp
<1> QED BY <1>2, <1>3, <1>5 DEF CardsUpTo

(* Appending a row to the lineage leaves it good when that row is not reversed
   and is a step forward from the one kept before. *)
LEMMA LineageGrows ==
    ASSUME TypeOK, RowsOK, LineageOK, [Next]_vars, NEW k \in 1..n', NEW last,
           lineage' = Append(lineage, k), forkCards' = forkCards,
           ~Reversed(k), lineage # <<>>, lineage[Len(lineage)] = last, StepUp(last, k)'
    PROVE  /\ EntriesOK'
           /\ CardsUpTo(n)'
           /\ LineageImproves'
<1>0. /\ n \in Nat /\ n' \in {n, n + 1} /\ lineage \in Seq(Nat) /\ Len(lineage) \in Nat
      /\ forkCards \subseteq [iteration : Nat, decision : Resolutions]
      /\ \A j \in 1..n : rows'[j] = rows[j]
      /\ \A i \in DOMAIN lineage : lineage[i] \in 1..n
      /\ CardsUpTo(n) /\ k \in Nat
  BY RowsStay DEF TypeOK, StoreType, KeptType, LineageOK, EntriesOK
<1>1. \A j : Reversed(j)' <=> Reversed(j)
  BY DEF Reversed
<1>2. /\ Len(lineage') = Len(lineage) + 1 /\ lineage' \in Seq(Nat)
      /\ \A i \in 1..Len(lineage) : lineage'[i] = lineage[i]
      /\ lineage'[Len(lineage) + 1] = k
      /\ DOMAIN lineage' = 1..(Len(lineage) + 1) /\ DOMAIN lineage = 1..Len(lineage)
  BY <1>0, AppendProperties
<1>3. EntriesOK'
  <2>1. ASSUME NEW i \in DOMAIN lineage' PROVE (lineage[i] \in 1..n /\ ~Reversed(lineage[i]))'
    <3>1. CASE i = Len(lineage) + 1
      <4>1. lineage'[i] = k
        BY <1>2, <3>1
      <4> QED BY <1>1, <4>1
    <3>2. CASE i # Len(lineage) + 1
      <4>1. i \in 1..Len(lineage)
        BY <1>0, <1>2, <3>2
      <4>2. lineage'[i] = lineage[i]
        BY <1>2, <4>1
      <4> QED BY <1>0, <1>1, <1>2, <4>1, <4>2 DEF LineageOK, EntriesOK
    <3> QED BY <3>1, <3>2
  <2> QED BY <2>1 DEF EntriesOK
<1>4. \A f \in forkCards' : f.iteration <= n'
  BY <1>0 DEF CardsUpTo
<1>5. ASSUME NEW i \in DOMAIN lineage' \ {1}
      PROVE  StepUp(lineage[i-1], lineage[i])'
  <2>1. CASE i = Len(lineage) + 1
    <3>1. lineage'[i] = k
      BY <1>2, <2>1
    <3>2. i - 1 = Len(lineage) /\ i - 1 \in 1..Len(lineage)
      BY <1>0, <1>2, <2>1
    <3>3. lineage'[i-1] = last
      BY <1>2, <3>2
    <3> QED BY <3>1, <3>3
  <2>2. CASE i # Len(lineage) + 1
    <3>1. i \in DOMAIN lineage \ {1} /\ i - 1 \in DOMAIN lineage
      BY <1>0, <1>2, <2>2
    <3>2. lineage'[i] = lineage[i] /\ lineage'[i-1] = lineage[i-1]
      BY <1>2, <3>1
    <3>3. lineage[i] \in 1..n /\ lineage[i-1] \in 1..n
      BY <1>0, <3>1
    <3>4. rows'[lineage[i-1]] = rows[lineage[i-1]] /\ rows'[lineage[i]] = rows[lineage[i]]
      BY <1>0, <3>3
    <3>5. StepUp(lineage[i-1], lineage[i])
      BY <3>1 DEF LineageOK, LineageImproves, StepUp
    <3> QED BY <1>1, <3>2, <3>4, <3>5 DEF StepUp, IsRefactor
  <2> QED BY <2>1, <2>2
<1>6. LineageImproves'
  BY <1>5 DEF LineageImproves, StepUp
<1> QED BY <1>3, <1>4, <1>6 DEF CardsUpTo

(* Every step keeps the lineage good: an accepted refactor was not reversed
   and improves on the kept one, and a compression row is no refactor. *)
LEMMA LineageStep ==
    ASSUME TypeOK, RowsOK, LineageOK, [Next]_vars
    PROVE  LineageOK'
<1> USE DEF toolVars, storeVars, keptVars, pivotVars, costVars, reflectVars, callVars, endVars
<1>0. /\ ToolType /\ StoreType /\ Len(rows) = n /\ n \in Nat /\ lineage \in Seq(Nat)
      /\ Len(lineage) \in Nat /\ \A f \in forkCards : f.iteration <= n /\ f.iteration \in Nat
      /\ \A k \in 1..n : rows'[k] = rows[k]
      /\ AfterBaseline => lineage # <<>> /\ lineage[Len(lineage)] = kept /\ kept \in 1..n
  BY RowsStay DEF TypeOK, RowsOK, StoreType, KeptType, LineageOK, CardsUpTo
<1>1. ~Reversed(n + 1)
  BY <1>0 DEF Reversed
<1>2. CASE JudgeBaseline
  <2>1. /\ n = 0 /\ n' = 1 /\ kept' = 1 /\ lineage' = <<1>> /\ pc' = "evaluate"
        /\ forkCards' = forkCards
    BY <1>0, <1>2 DEF JudgeBaseline, Record, RowsOK
  <2>2. EntriesOK' /\ LineageImproves'
    BY <1>1, <2>1 DEF EntriesOK, LineageImproves, Reversed
  <2>3. lineage' # <<>> /\ lineage'[Len(lineage')] = kept'
    BY <2>1
  <2>4. CardsUpTo(n)'
    BY <1>0, <2>1 DEF CardsUpTo
  <2> QED BY <2>1, <2>2, <2>3, <2>4 DEF LineageOK
<1>3. CASE JudgeRefactor
  <2>1. /\ pc = "judge" /\ pc' = "apply" /\ n' = n + 1 /\ lineage' = lineage /\ kept' = kept
        /\ forkCards' = forkCards \cup {[iteration |-> n + 1, decision |-> c] : c \in cards}
        /\ cards' = cards
    BY <1>3 DEF JudgeRefactor, Record
  <2>2. EntriesOK' /\ CardsUpTo(n)' /\ LineageImproves'
    BY <2>1, LineageStays DEF EntriesOK
  <2>3. Reversed(n)' => ForkReversal'
    BY <1>1, <2>1 DEF Reversed, ForkReversal
  <2>4. lineage' # <<>> /\ lineage'[Len(lineage')] = kept'
    BY <1>0, <2>1 DEF AfterBaseline
  <2> QED BY <2>1, <2>2, <2>3, <2>4 DEF LineageOK
<1>4. CASE Accept
  <2>1. /\ pc = "apply" /\ Improved /\ lineage' = Append(lineage, n) /\ kept' = n
        /\ forkCards' = forkCards /\ rows' = rows /\ n' = n /\ pc' \in {"compress", "evaluate"}
    BY <1>4 DEF Accept
  <2>2. PICK last, k : last = kept /\ k = n
    OBVIOUS
  <2>3. AfterBaseline /\ k \in 1..n' /\ n' = k
    BY <1>0, <2>1, <2>2 DEF AfterBaseline
  <2>4. ~Reversed(k)
    BY <2>1, <2>2 DEF LineageOK, Improved
  <2>5. StepUp(last, k)'
    BY <2>1, <2>2, <2>4 DEF StepUp, Improved, newVerdict, verdict, IsRefactor, Reversed
  <2>6. EntriesOK' /\ CardsUpTo(n)' /\ LineageImproves'
    BY <1>0, <2>1, <2>2, <2>3, <2>4, <2>5, LineageGrows DEF EntriesOK
  <2>7. lineage' # <<>> /\ lineage'[Len(lineage')] = kept'
    BY <1>0, <2>1, AppendProperties
  <2> QED BY <2>1, <2>6, <2>7 DEF LineageOK
<1>5. CASE SkipCompression \/ AcceptCompression \/ RollBackCompression
  <2>1. PICK row \in RowSet : KeepCompressed(row) /\ row.diff = "compression"
    <3>1. ASSUME NEW r \in Reports
          PROVE  Row(r, "compression") \in RowSet /\ Row(r, "compression").diff = "compression"
      BY <1>0, RowType DEF Row
    <3>2. CASE SkipCompression \/ AcceptCompression
      BY <3>1, <3>2 DEF SkipCompression, AcceptCompression
    <3>3. CASE RollBackCompression
      BY <3>3 DEF RollBackCompression, TypeOK, LineageOK
    <3> QED BY <1>5, <3>2, <3>3
  <2>2. PICK last, k : last = kept /\ k = n + 1
    OBVIOUS
  <2>3. /\ pc \in {"compress", "compress_judge"} /\ pc' = "evaluate"
        /\ lineage' = Append(lineage, k) /\ kept' = k /\ forkCards' = forkCards
        /\ n' = k /\ rows'[k] = row
    BY <1>0, <1>5, <2>1, <2>2, RecordKeeps
    DEF SkipCompression, AcceptCompression, RollBackCompression, KeepCompressed
  <2>4. k \in 1..n' /\ AfterBaseline /\ ~Reversed(k)
    BY <1>0, <1>1, <2>2, <2>3 DEF AfterBaseline
  <2>5. StepUp(last, k)'
    BY <2>1, <2>3 DEF StepUp, IsRefactor
  <2>6. EntriesOK' /\ CardsUpTo(n)' /\ LineageImproves'
    BY <1>0, <2>2, <2>3, <2>4, <2>5, LineageGrows DEF EntriesOK
  <2>7. lineage' # <<>> /\ lineage'[Len(lineage')] = kept'
    BY <1>0, <2>3, <2>4, AppendProperties
  <2> QED BY <2>3, <2>6, <2>7 DEF LineageOK
<1>6. CASE Consolidate
  <2>1. /\ pc = "compress" /\ pc' = "compress_judge" /\ lineage' = lineage /\ kept' = kept
        /\ forkCards' = forkCards /\ before'.diff = "compression"
    BY <1>6 DEF Consolidate, Row
  <2>2. EntriesOK' /\ CardsUpTo(n)' /\ LineageImproves'
    BY <2>1, LineageStays DEF EntriesOK
  <2>3. lineage' # <<>> /\ lineage'[Len(lineage')] = kept'
    BY <1>0, <2>1 DEF AfterBaseline
  <2> QED BY <2>1, <2>2, <2>3 DEF LineageOK
<1>7. CASE \/ Finish \/ Continue \/ Pivot \/ RetryRefactor \/ RefactorReturns \/ SafetyHalt
           \/ Reverse \/ RollBack \/ Raise \/ UNCHANGED vars
  <2>1. /\ lineage' = lineage /\ kept' = kept /\ forkCards' = forkCards /\ n' = n
        /\ \/ pc' = pc /\ (pc = "apply" => cards' = cards) /\ before' = before
           \/ pc' \notin {"apply", "compress_judge"} /\ (AfterBaseline' => AfterBaseline)
    BY <1>7 DEF Finish, Continue, Pivot, BeginRefactor, RetryRefactor, RefactorReturns, SafetyHalt,
                Reverse, RollBack, Raise, vars, AfterBaseline
  <2>2. EntriesOK' /\ CardsUpTo(n)' /\ LineageImproves'
    BY <2>1, LineageStays DEF EntriesOK
  <2>3. AfterBaseline' => lineage' # <<>> /\ lineage'[Len(lineage')] = kept'
    BY <1>0, <2>1 DEF AfterBaseline
  <2>4. pc' = "apply" => (Reversed(n)' => ForkReversal')
    BY <2>1 DEF LineageOK, Reversed, ForkReversal
  <2>5. pc' = "compress_judge" => before'.diff = "compression"
    BY <2>1 DEF LineageOK
  <2> QED BY <2>2, <2>3, <2>4, <2>5 DEF LineageOK
<1> QED BY <1>2, <1>3, <1>4, <1>5, <1>6, <1>7 DEF Next, Step

(* At the start there is no lineage. *)
LEMMA InitLineage == Init => LineageOK
<1> SUFFICES ASSUME Init PROVE LineageOK
  OBVIOUS
<1>1. pc = "start" /\ lineage = <<>> /\ forkCards = {}
  BY DEF Init
<1>2. DOMAIN lineage = {}
  BY <1>1
<1> QED BY <1>1, <1>2 DEF LineageOK, EntriesOK, CardsUpTo, LineageImproves, AfterBaseline

(* Every refactor the loop keeps is safe, was not reversed by a fork-card
   resolution, and improves on the verdict kept just before, whatever was
   rejected, reversed or compressed in between. *)
THEOREM LineageTheorem == Spec => []LineageImproves
<1>1. Init => TypeOK /\ RowsOK /\ LineageOK
  BY InitInv, InitLineage
<1>2. (TypeOK /\ RowsOK /\ LineageOK) /\ [Next]_vars => (TypeOK /\ RowsOK /\ LineageOK)'
  BY TypeStep, LineageStep
<1>3. LineageOK => LineageImproves
  BY DEF LineageOK
<1> QED BY <1>1, <1>2, <1>3, PTL DEF Spec

(* What a converged run stands on, from the invariants together. *)
LEMMA EarnedLemma ==
    ASSUME TypeOK, RowsOK, EndOK, DiskOK, LineageOK
    PROVE  ConvergedIsEarned
<1> SUFFICES ASSUME run = "converged"
             PROVE  /\ rows[reported].of = tree /\ ~Reversed(reported)
                    /\ rows[reported].rep.safe /\ ReachedTarget(rows[reported].rep)
  BY DEF ConvergedIsEarned
<1>1. pc = "done" /\ AfterBaseline
  BY DEF EndOK, AfterBaseline
<1>2. kept \in DOMAIN rows /\ lineage \in Seq(Nat) /\ Len(lineage) \in DOMAIN lineage
  BY <1>1 DEF RowsOK, TypeOK, StoreType, KeptType, LineageOK
<1>3. ~Reversed(kept)
  BY <1>1, <1>2 DEF LineageOK, EntriesOK
<1>4. rows[kept].of = tree
  BY <1>1 DEF DiskOK
<1> QED BY <1>2, <1>3, <1>4 DEF EndOK, verdict

(* As long as refactors create no files, a run recorded as converged has on
   disk the tool whose verdict it reports, graded safe and at target, and no
   fork-card resolution overruled it. *)
THEOREM EarnedTheorem == ASSUME NewPaths = {} PROVE Spec => []ConvergedIsEarned
<1> DEFINE Inv == TypeOK /\ RowsOK /\ EndOK /\ DiskOK /\ LineageOK
<1>1. Init => Inv
  <2>1. Init => EndOK
    BY DEF Init, EndOK
  <2> QED BY <2>1, InitInv, InitDisk, InitLineage
<1>2. Inv /\ [Next]_vars => Inv'
  BY TypeStep, EndStep, DiskStep, LineageStep
<1>3. Inv => ConvergedIsEarned
  BY EarnedLemma
<1> QED BY <1>1, <1>2, <1>3, PTL DEF Spec

-----------------------------------------------------------------------------
(* The safety gate.                                                        *)

(* Nothing is refactored on an unsafe verdict, and after an unsafe refactor the
   kept one is the safe one it was, the reported one that of the refused build. *)
SafeOK ==
    /\ pc \in {"refactor", "judge", "apply"} => verdict.safe
    /\ reason = "refactor_unsafe" =>
           pc = "done" /\ verdict.safe /\ reported = n /\ ~newVerdict.safe

(* Every step keeps it so. *)
LEMMA SafeStep ==
    ASSUME TypeOK, RowsOK, SafeOK, [Next]_vars
    PROVE  SafeOK'
<1> USE DEF toolVars, storeVars, keptVars, pivotVars, costVars, reflectVars, callVars, endVars
<1>1. CASE UNCHANGED vars
  BY <1>1 DEF vars, SafeOK, verdict, newVerdict
<1>2. CASE Finish
  <2>1. pc' = "done" /\ reason' # "refactor_unsafe"
    BY <1>2, DecisionMeans DEF Finish
  <2> QED BY <2>1 DEF SafeOK
<1>3. CASE SafetyHalt
  <2>1. /\ pc = "apply" /\ pc' = "done" /\ rows' = rows /\ kept' = kept /\ n' = n
        /\ reported' = n /\ ~newVerdict.safe
    BY <1>3 DEF SafetyHalt
  <2>2. verdict' = verdict /\ newVerdict' = newVerdict
    BY <2>1 DEF verdict, newVerdict
  <2> QED BY <2>1, <2>2 DEF SafeOK
<1>4. CASE endVars' = endVars /\ pc \notin {"done", "raised"} /\ pc' # "done"
  <2>1. reason' # "refactor_unsafe"
    BY <1>4 DEF SafeOK
  <2>2. ASSUME pc' \in {"refactor", "judge", "apply"} PROVE verdict'.safe
    <3>1. CASE pc = "evaluate"
      <4>1. Continue \/ Pivot
        BY <2>2, <3>1, <1>4 DEF Next, Step, JudgeBaseline, Finish, RetryRefactor,
           RefactorReturns, JudgeRefactor, SafetyHalt, Reverse, RollBack, Accept,
           SkipCompression, Consolidate, AcceptCompression, RollBackCompression, Raise, vars
      <4>2. /\ rows' = rows /\ kept' = kept
            /\ Decision \in {"continue", "plateau"}
        BY <4>1 DEF Continue, Pivot, CanPivot, BeginRefactor
      <4> QED BY <4>2, DecisionMeans DEF verdict
    <3>2. CASE pc \in {"refactor", "judge"}
      <4>1. kept' = kept
        BY <3>2, <2>2 DEF Next, Step, JudgeBaseline, Finish, Continue, Pivot, RetryRefactor,
           RefactorReturns, JudgeRefactor, SafetyHalt, Reverse, RollBack, Accept,
           SkipCompression, Consolidate, AcceptCompression, RollBackCompression, Raise, vars
      <4>2. rows'[kept'] = rows[kept]
        BY <3>2, <4>1, VerdictStays DEF AfterBaseline
      <4> QED BY <3>2, <4>1, <4>2 DEF SafeOK, verdict
    <3>3. CASE pc \notin {"evaluate", "refactor", "judge"}
      <4>1. UNCHANGED vars
        BY <3>3, <2>2 DEF Next, Step, JudgeBaseline, Finish, Continue, Pivot, RetryRefactor,
           RefactorReturns, JudgeRefactor, SafetyHalt, Reverse, RollBack, Accept,
           SkipCompression, KeepCompressed, Consolidate, AcceptCompression,
           RollBackCompression, Raise
      <4> QED BY <4>1, <1>1, <2>2 DEF SafeOK
    <3> QED BY <3>1, <3>2, <3>3
  <2> QED BY <2>1, <2>2 DEF SafeOK
<1> QED BY <1>1, <1>2, <1>3, <1>4, RunStep

(* As long as refactors create no files, a refactor that breaks safety is rolled
   back to the safe tool of the kept verdict, and what the run reports is the
   verdict of the refused build; with or without a compression engine. *)
THEOREM SafetyTheorem == ASSUME NewPaths = {} PROVE Spec => []SafetyRollsBack
<1> DEFINE Inv == TypeOK /\ RowsOK /\ DiskOK /\ SafeOK
<1>1. Init => Inv
  <2>1. Init => SafeOK
    BY DEF Init, SafeOK
  <2> QED BY <2>1, InitInv, InitDisk
<1>2. Inv /\ [Next]_vars => Inv'
  BY TypeStep, DiskStep, SafeStep
<1>3. Inv => SafetyRollsBack
  BY DEF DiskOK, SafeOK, SafetyRollsBack, verdict, newVerdict
<1> QED BY <1>1, <1>2, <1>3, PTL DEF Spec

-----------------------------------------------------------------------------
(* What the convergence policy guarantees of a run: which rows are         *)
(* compounded, what a pivot does, when the refiner may still be called,    *)
(* what a stop for plateau means, and that the loop ends.                  *)

-----------------------------------------------------------------------------
(* Compounding.                                                            *)

In(s, k) == \E i \in DOMAIN s : s[i] = k

(* What is appended to a sequence is in it, with what was there before. *)
LEMMA InAppend ==
    ASSUME NEW s \in Seq(Nat), NEW e \in Nat, NEW t, t = Append(s, e)
    PROVE  \A k : In(t, k) <=> In(s, k) \/ k = e
<1>1. /\ Len(s) \in Nat /\ DOMAIN s = 1..Len(s) /\ DOMAIN t = 1..(Len(s) + 1)
      /\ \A i \in 1..Len(s) : t[i] = s[i]
      /\ t[Len(s) + 1] = e
  BY AppendProperties
<1>2. ASSUME NEW k PROVE In(t, k) <=> In(s, k) \/ k = e
  <2>1. ASSUME NEW i \in DOMAIN t, t[i] = k PROVE In(s, k) \/ k = e
    <3>1. CASE i = Len(s) + 1
      BY <1>1, <2>1, <3>1
    <3>2. CASE i # Len(s) + 1
      <4>1. i \in 1..Len(s)
        BY <1>1, <3>2
      <4> QED BY <1>1, <2>1, <4>1 DEF In
    <3> QED BY <3>1, <3>2
  <2>2. ASSUME NEW i \in DOMAIN s, s[i] = k PROVE In(t, k)
    <3>1. i \in DOMAIN t /\ t[i] = k
      BY <1>1, <2>2
    <3> QED BY <3>1 DEF In
  <2>3. k = e => In(t, k)
    <3>1. Len(s) + 1 \in DOMAIN t
      BY <1>1
    <3> QED BY <1>1, <3>1 DEF In
  <2> QED BY <2>1, <2>2, <2>3 DEF In
<1> QED BY <1>2

(* What is compounded is a row, or the 0 of a compression pass, and the
   refactors that are compounded are those that have been kept. *)
CompoundOK ==
    /\ \A k : In(learnings, k) => k <= n
    /\ pc # "raised" =>
          \A k \in 1..n : IsRefactor(k) => (In(learnings, k) <=> In(lineage, k))

(* Nothing is compounded when run() is called. *)
LEMMA InitCompound == Init => CompoundOK
<1> SUFFICES ASSUME Init PROVE CompoundOK
  OBVIOUS
<1>1. learnings = <<>> /\ n = 0 /\ 1..n = {}
  <2>1. learnings = <<>> /\ n = 0
    BY DEF Init
  <2> QED BY <2>1
<1>2. \A k : ~In(learnings, k)
  BY <1>1 DEF In
<1> QED BY <1>1, <1>2 DEF CompoundOK

(* A row that is no refactor leaves the two records in step. *)
LEMMA CompoundGrows ==
    ASSUME TypeOK, RowsOK, CompoundOK, [Next]_vars, pc # "raised",
           n' = n + 1, rows'[n + 1].diff # "refactor",
           \A k \in 1..n : In(lineage, k)' <=> In(lineage, k),
           \A k : In(learnings, k)' => In(learnings, k) \/ k = 0,
           \A k \in 1..n : In(learnings, k) => In(learnings, k)'
    PROVE  CompoundOK'
<1>0. n \in Nat /\ \A k \in 1..n : rows'[k] = rows[k]
  BY RowsStay
<1>1. \A k : In(learnings, k)' => k <= n'
  <2>1. ASSUME NEW k, In(learnings, k)' PROVE k <= n'
    <3>1. CASE In(learnings, k)
      <4>1. k <= n /\ k \in Nat
        BY <3>1 DEF CompoundOK, TypeOK, StoreType, In
      <4> QED BY <1>0, <4>1
    <3>2. CASE k = 0
      BY <1>0, <3>2
    <3> QED BY <2>1, <3>1, <3>2
  <2> QED BY <2>1
<1>2. ASSUME NEW k \in 1..n', IsRefactor(k)'
      PROVE  In(learnings, k)' <=> In(lineage, k)'
  <2>1. k # n + 1
    BY <1>2 DEF IsRefactor
  <2>2. k \in 1..n /\ k # 0
    BY <1>0, <2>1
  <2>3. IsRefactor(k)
    BY <1>0, <1>2, <2>2 DEF IsRefactor
  <2> QED BY <2>2, <2>3 DEF CompoundOK
<1> QED BY <1>1, <1>2 DEF CompoundOK

(* Every step keeps the two records in step. *)
LEMMA CompoundStep ==
    ASSUME TypeOK, RowsOK, LineageOK, CompoundOK, [Next]_vars
    PROVE  CompoundOK'
<1> USE DEF toolVars, storeVars, keptVars, pivotVars, costVars, reflectVars, callVars, endVars
<1>0. /\ ToolType /\ StoreType /\ Len(rows) = n /\ n \in Nat
      /\ learnings \in Seq(Nat) /\ lineage \in Seq(Nat)
      /\ \A k : In(learnings, k) => k \in Nat
      /\ \A k \in 1..n : rows'[k] = rows[k]
  BY RowsStay DEF TypeOK, RowsOK, StoreType, KeptType, In
<1>1. CASE JudgeBaseline
  <2>1. PICK r \in Reports : Record(Row(r, "initial"))
    BY <1>1 DEF JudgeBaseline
  <2>2. rows'[n + 1] = Row(r, "initial") /\ n' = n + 1 /\ n = 0
    BY <1>0, <1>1, <2>1, RowType, RecordKeeps DEF JudgeBaseline, RowsOK
  <2>3. rows'[n + 1].diff # "refactor" /\ learnings' = learnings /\ pc # "raised"
    BY <1>1, <2>2 DEF Row, JudgeBaseline
  <2>4. \A k \in 1..n : FALSE
    BY <2>2
  <2>5. \A k : In(learnings, k)' <=> In(learnings, k)
    BY <2>3
  <2> QED BY <2>2, <2>3, <2>4, <2>5, CompoundGrows
<1>2. CASE JudgeRefactor
  <2>1. n' = n + 1 /\ learnings' = learnings /\ lineage' = lineage /\ pc = "judge"
    BY <1>2 DEF JudgeRefactor, Record
  <2>2. ~In(learnings, n + 1)
    BY <1>0 DEF CompoundOK
  <2>3. ~In(lineage, n + 1)
    BY <1>0 DEF LineageOK, EntriesOK, In
  <2>4. \A k : In(learnings, k)' => k <= n'
    <3>1. ASSUME NEW k, In(learnings, k)' PROVE k <= n'
      <4>1. In(learnings, k)
        BY <2>1, <3>1
      <4>2. k <= n /\ k \in Nat
        BY <1>0, <4>1 DEF CompoundOK
      <4> QED BY <1>0, <2>1, <4>2
    <3> QED BY <3>1
  <2>5. ASSUME NEW k \in 1..n', IsRefactor(k)'
        PROVE  In(learnings, k)' <=> In(lineage, k)'
    <3>1. CASE k = n + 1
      BY <2>1, <2>2, <2>3, <3>1 DEF In
    <3>2. CASE k # n + 1
      <4>1. k \in 1..n
        BY <1>0, <2>1, <3>2
      <4>2. IsRefactor(k)
        BY <1>0, <2>5, <4>1 DEF IsRefactor
      <4> QED BY <2>1, <4>1, <4>2 DEF CompoundOK, In
    <3> QED BY <3>1, <3>2
  <2> QED BY <2>4, <2>5 DEF CompoundOK
<1>3. CASE Accept
  <2>1. /\ learnings' = Append(learnings, n) /\ lineage' = Append(lineage, n)
        /\ rows' = rows /\ n' = n /\ pc = "apply"
    BY <1>3 DEF Accept
  <2>2. \A k : In(learnings, k)' <=> In(learnings, k) \/ k = n
    BY <1>0, <2>1, InAppend
  <2>3. \A k : In(lineage, k)' <=> In(lineage, k) \/ k = n
    BY <1>0, <2>1, InAppend
  <2>4. \A k : In(learnings, k)' => k <= n'
    BY <1>0, <2>1, <2>2 DEF CompoundOK
  <2>5. \A k \in 1..n' : IsRefactor(k)' => (In(learnings, k)' <=> In(lineage, k)')
    BY <2>1, <2>2, <2>3 DEF CompoundOK, IsRefactor
  <2> QED BY <2>4, <2>5 DEF CompoundOK
<1>4. CASE SkipCompression \/ AcceptCompression \/ RollBackCompression
  <2>1. PICK row \in RowSet : KeepCompressed(row) /\ row.diff = "compression"
    <3>1. ASSUME NEW r \in Reports
          PROVE  Row(r, "compression") \in RowSet /\ Row(r, "compression").diff = "compression"
      BY <1>0, RowType DEF Row
    <3>2. CASE SkipCompression \/ AcceptCompression
      BY <3>1, <3>2 DEF SkipCompression, AcceptCompression
    <3>3. CASE RollBackCompression
      BY <3>3 DEF RollBackCompression, TypeOK, LineageOK
    <3> QED BY <1>4, <3>2, <3>3
  <2>2. n' = n + 1 /\ lineage' = Append(lineage, n + 1) /\ rows'[n + 1] = row
    BY <1>0, <2>1, RecordKeeps DEF KeepCompressed
  <2>3. rows'[n + 1].diff # "refactor" /\ pc # "raised"
    BY <1>4, <2>1, <2>2 DEF SkipCompression, AcceptCompression, RollBackCompression
  <2>4. \A k : In(lineage, k)' <=> In(lineage, k) \/ k = n + 1
    <3>1. PICK e : e = n + 1
      OBVIOUS
    <3>2. e \in Nat /\ lineage' = Append(lineage, e)
      BY <1>0, <2>2, <3>1
    <3>3. \A k : In(lineage, k)' <=> In(lineage, k) \/ k = e
      BY <1>0, <3>2, InAppend
    <3> QED BY <3>1, <3>3
  <2>5. \A k \in 1..n : In(lineage, k)' <=> In(lineage, k)
    BY <1>0, <2>4
  <2>6. learnings' = learnings \/ learnings' = Append(learnings, 0)
    BY <1>4 DEF SkipCompression, AcceptCompression, RollBackCompression
  <2>7. /\ \A k : In(learnings, k)' => In(learnings, k) \/ k = 0
        /\ \A k \in 1..n : In(learnings, k) => In(learnings, k)'
    <3>1. CASE learnings' = learnings
      BY <3>1 DEF In
    <3>2. CASE learnings' = Append(learnings, 0)
      BY <1>0, <3>2, InAppend
    <3> QED BY <2>6, <3>1, <3>2
  <2> QED BY <2>2, <2>3, <2>5, <2>7, CompoundGrows
<1>5. CASE Raise
  <2>1. pc' = "raised" /\ n' = n /\ (learnings' = learnings \/ learnings' = Append(learnings, n))
    BY <1>5 DEF Raise
  <2>2. \A k : In(learnings, k)' => In(learnings, k) \/ k = n
    <3>1. CASE learnings' = learnings
      BY <3>1 DEF In
    <3>2. CASE learnings' = Append(learnings, n)
      BY <1>0, <3>2, InAppend
    <3> QED BY <2>1, <3>1, <3>2
  <2> QED BY <1>0, <2>1, <2>2 DEF CompoundOK
<1>6. CASE \/ Finish \/ Continue \/ Pivot \/ RetryRefactor \/ RefactorReturns \/ SafetyHalt
           \/ Reverse \/ RollBack \/ Consolidate \/ UNCHANGED vars
  <2>1. /\ rows' = rows /\ n' = n /\ learnings' = learnings /\ lineage' = lineage
        /\ pc' # "raised" => pc # "raised"
    BY <1>6 DEF Finish, Continue, Pivot, BeginRefactor, RetryRefactor, RefactorReturns,
                SafetyHalt, Reverse, RollBack, Consolidate, vars
  <2> QED BY <2>1 DEF CompoundOK, In, IsRefactor
<1> QED BY <1>1, <1>2, <1>3, <1>4, <1>5, <1>6 DEF Next, Step

(* As long as nothing raises, /ce-compound has fired for exactly the refactors
   that have been the kept verdict, through every rejection, reversal and
   compression pass. *)
THEOREM CompoundTheorem == Spec => []CompoundedIsKept
<1> DEFINE Inv == TypeOK /\ RowsOK /\ LineageOK /\ CompoundOK
<1>1. Init => Inv
  BY InitInv, InitLineage, InitCompound
<1>2. Inv /\ [Next]_vars => Inv'
  BY TypeStep, LineageStep, CompoundStep
<1>3. Inv => CompoundedIsKept
  <2> SUFFICES ASSUME Inv, pc # "raised"
               PROVE  {k \in DOMAIN rows : IsRefactor(k) /\ In(learnings, k)}
                        = {k \in DOMAIN rows : IsRefactor(k) /\ In(lineage, k)}
    BY DEF CompoundedIsKept, In
  <2>1. DOMAIN rows = 1..n
    BY DEF TypeOK, StoreType, RowsOK
  <2> QED BY <2>1 DEF CompoundOK
<1> QED BY <1>1, <1>2, <1>3, PTL DEF Spec

-----------------------------------------------------------------------------
(* Pivots.                                                                 *)

(* What each step does to the pivots and to the reason of the stop. *)
LEMMA PivotStep ==
    ASSUME [Next]_vars
    PROVE  \/ UNCHANGED vars
           \/ Pivot
           \/ Finish
           \/ /\ pivotsUsed' = pivotsUsed /\ pivotOffset' = pivotOffset
              /\ pc \notin {"done", "raised"}
              /\ \/ reason' = reason /\ pc' # "done"
                 \/ reason' = "refactor_unsafe"
<1> USE DEF toolVars, storeVars, keptVars, pivotVars, costVars, reflectVars, callVars, endVars
<1>1. CASE JudgeBaseline \/ Continue \/ RetryRefactor \/ RefactorReturns
  BY <1>1 DEF JudgeBaseline, Continue, BeginRefactor, RetryRefactor, RefactorReturns
<1>2. CASE JudgeRefactor \/ SafetyHalt \/ Reverse \/ RollBack \/ Accept
  BY <1>2 DEF JudgeRefactor, SafetyHalt, Reverse, RollBack, Accept
<1>3. CASE SkipCompression \/ Consolidate \/ AcceptCompression \/ RollBackCompression \/ Raise
  BY <1>3 DEF SkipCompression, Consolidate, AcceptCompression, RollBackCompression,
              KeepCompressed, Raise
<1> QED BY <1>1, <1>2, <1>3 DEF Next, Step

(* The rows a pivot waits for: one of its own and a whole window. *)
PivotRows == PlateauPatience + 1

WindowOK ==
    /\ pivotsUsed * PivotRows <= pivotOffset /\ pivotOffset <= n
    /\ pc # "done" => reason # "plateau"
    /\ PivotsGetTheirWindow

(* A plateau is only seen beyond the window of the last pivot. *)
LEMMA PlateauIsLate ==
    ASSUME TypeOK, RowsOK, WindowOK, Decision = "plateau"
    PROVE  /\ Plateaued
           /\ (pivotsUsed + 1) * PivotRows <= n
<1>1. Plateaued
  BY DEF Decision, BudgetDecision
<1>2. /\ n \in Nat /\ pivotOffset \in Nat /\ PlateauPatience \in Nat /\ pivotsUsed \in Nat
      /\ pivotOffset + PlateauPatience < n
  <2>1. /\ n \in Nat /\ pivotOffset \in Nat /\ PlateauPatience \in Nat /\ pivotsUsed \in Nat
    BY LimitsAssumption DEF TypeOK, StoreType, PivotType
  <2>2. n - pivotOffset > PlateauPatience
    BY <1>1 DEF Plateaued, RowsOK
  <2> QED BY <2>1, <2>2
<1>3. PICK w \in Nat : w = PivotRows /\ w = PlateauPatience + 1
  BY <1>2 DEF PivotRows
<1>4. pivotsUsed * w <= pivotOffset
  BY <1>3 DEF WindowOK
<1>5. (pivotsUsed + 1) * w = pivotsUsed * w + w /\ pivotsUsed * w \in Nat
  BY <1>2, <1>3
<1>6. (pivotsUsed + 1) * w <= n
  BY <1>2, <1>3, <1>4, <1>5
<1> QED BY <1>1, <1>3, <1>6

(* Every step keeps the windows: a pivot starts a new one behind a whole one,
   and a stop for plateau has no pivot left. *)
LEMMA WindowStep ==
    ASSUME TypeOK, RowsOK, WindowOK, [Next]_vars
    PROVE  WindowOK'
<1>0. /\ n \in Nat /\ n' \in {n, n + 1} /\ pivotOffset \in Nat /\ pivotsUsed \in 0..PlateauPivots
      /\ PlateauPivots \in Nat /\ PlateauPatience \in Nat /\ Len(rows) = n
  BY RowsStay, LimitsAssumption DEF TypeOK, StoreType, PivotType, RowsOK
<1>1. CASE UNCHANGED vars
  BY <1>1 DEF WindowOK, PivotsGetTheirWindow, vars, pivotVars, storeVars, endVars
<1>2. CASE Pivot
  <2>1. /\ pivotsUsed' = pivotsUsed + 1 /\ pivotOffset' = n /\ n' = n /\ reason' = reason
        /\ pc = "evaluate" /\ pc' = "refactor" /\ Decision = "plateau"
    BY <1>2 DEF Pivot, CanPivot, BeginRefactor, storeVars, endVars
  <2>2. (pivotsUsed + 1) * PivotRows <= n
    BY <2>1, PlateauIsLate
  <2>3. pivotsUsed' * PivotRows <= pivotOffset' /\ pivotOffset' <= n'
    BY <1>0, <2>1, <2>2
  <2>4. reason' # "plateau"
    BY <2>1 DEF WindowOK
  <2> QED BY <2>3, <2>4 DEF WindowOK, PivotsGetTheirWindow, PivotRows
<1>3. CASE Finish
  <2>1. /\ pivotsUsed' = pivotsUsed /\ pivotOffset' = pivotOffset /\ n' = n /\ pc' = "done"
        /\ reason' = Decision /\ ~CanPivot
    BY <1>3 DEF Finish, storeVars, pivotVars
  <2>2. ASSUME Decision = "plateau"
        PROVE  pivotsUsed = PlateauPivots /\ n >= (PlateauPivots + 1) * (PlateauPatience + 1)
    <3>1. pivotsUsed = PlateauPivots
      BY <1>0, <2>1, <2>2 DEF CanPivot
    <3>2. (pivotsUsed + 1) * PivotRows <= n
      BY <2>2, PlateauIsLate
    <3>3. (pivotsUsed + 1) * PivotRows = (PlateauPivots + 1) * (PlateauPatience + 1)
      BY <3>1 DEF PivotRows
    <3>4. PICK m \in Nat : m = (PlateauPivots + 1) * (PlateauPatience + 1)
      BY <1>0
    <3> QED BY <1>0, <3>1, <3>2, <3>3, <3>4
  <2> QED BY <2>1, <2>2 DEF WindowOK, PivotsGetTheirWindow, PivotRows
<1>4. CASE /\ pivotsUsed' = pivotsUsed /\ pivotOffset' = pivotOffset
           /\ pc \notin {"done", "raised"}
           /\ \/ reason' = reason /\ pc' # "done"
              \/ reason' = "refactor_unsafe"
  <2>1. reason' # "plateau"
    BY <1>4 DEF WindowOK
  <2>2. pivotOffset' <= n'
    BY <1>0, <1>4 DEF WindowOK
  <2> QED BY <1>4, <2>1, <2>2 DEF WindowOK, PivotsGetTheirWindow, PivotRows
<1> QED BY <1>1, <1>2, <1>3, <1>4, PivotStep

(* No window is behind run() when it is called. *)
LEMMA InitWindow == Init => WindowOK
<1> SUFFICES ASSUME Init PROVE WindowOK
  OBVIOUS
<1>1. pivotsUsed = 0 /\ pivotOffset = 0 /\ n = 0
  BY DEF Init
<1>2. reason # "plateau"
  <2>1. reason = ""
    BY DEF Init
  <2> QED BY <2>1
<1>3. PICK w \in Nat : w = PivotRows
  BY LimitsAssumption DEF PivotRows
<1>4. 0 * w = 0
  OBVIOUS
<1>5. pivotsUsed * PivotRows = 0
  BY <1>1, <1>3, <1>4, Zenon
<1> QED BY <1>1, <1>2, <1>5 DEF WindowOK, PivotsGetTheirWindow

(* A run that stops for plateau has spent every pivot it had, and each of them,
   like the loop before the first, was given a row of its own and a whole
   window of PlateauPatience rows behind it. *)
THEOREM WindowTheorem == Spec => []PivotsGetTheirWindow
<1> DEFINE Inv == TypeOK /\ RowsOK /\ WindowOK
<1>1. Init => Inv
  BY InitInv, InitWindow
<1>2. Inv /\ [Next]_vars => Inv'
  BY TypeStep, WindowStep
<1>3. Inv => PivotsGetTheirWindow
  BY DEF WindowOK
<1> QED BY <1>1, <1>2, <1>3, PTL DEF Spec

(* A brief leads with a dimension that is not excluded, unless they all are. *)
LEMMA LeadIsFresh ==
    ASSUME NEW ranked \in Seq(Dims), NEW excluded
    PROVE  \/ LeadDimension(ranked, excluded) \notin excluded
           \/ \A i \in DOMAIN ranked : ranked[i] \in excluded
<1> DEFINE fresh == {i \in DOMAIN ranked : ranked[i] \notin excluded}
<1>1. fresh \subseteq Nat
  OBVIOUS
<1>2. CASE fresh = {}
  BY <1>2
<1>3. CASE fresh # {}
  <2>1. (CHOOSE i \in fresh : \A j \in fresh : i <= j) \in fresh
    BY <1>1, <1>3, LeastNatural
  <2>2. ranked # <<>>
    BY <1>3
  <2> QED BY <1>3, <2>1, <2>2 DEF LeadDimension
<1> QED BY <1>2, <1>3

(* After a pivot the refiner is pointed at a dimension it was not pointed at
   since the last one, unless the judge ranks no such dimension: the excluded
   ones are all that were tried. *)
THEOREM RotateTheorem == Spec => PivotRotates
<1> DEFINE Inv == TypeOK /\ RowsOK
           Rotates == pivotsUsed' > pivotsUsed =>
                        \/ lead' \notin targeted
                        \/ \A i \in DOMAIN verdict.ranked : verdict.ranked[i] \in activeExclude'
<1>1. Init => Inv
  BY InitInv
<1>2. Inv /\ [Next]_vars => Inv'
  BY TypeStep
<1>3. Inv /\ [Next]_vars => [Rotates]_vars
  <2> SUFFICES ASSUME Inv, [Next]_vars, pivotsUsed' > pivotsUsed
               PROVE  \/ lead' \notin targeted
                      \/ \A i \in DOMAIN verdict.ranked : verdict.ranked[i] \in activeExclude'
    OBVIOUS
  <2>1. pivotsUsed \in Nat /\ pivotsUsed' # pivotsUsed
    BY LimitsAssumption DEF TypeOK, PivotType
  <2>2. Pivot
    BY <2>1, PivotStep DEF vars, pivotVars, Finish
  <2>3. /\ lead' = LeadDimension(verdict.ranked, activeExclude')
        /\ targeted \subseteq activeExclude' /\ pc = "evaluate"
    BY <2>2 DEF Pivot, BeginRefactor
  <2>4. verdict.ranked \in Seq(Dims)
    BY <2>3, RowReport DEF TypeOK, RowsOK, AfterBaseline, verdict
  <2> QED BY <2>3, <2>4, LeadIsFresh
<1> QED BY <1>1, <1>2, <1>3, PTL DEF Spec, PivotRotates

-----------------------------------------------------------------------------
(* Budgets.                                                                *)

(* Going on means that no budget has been reached. *)
LEMMA WithinBudget ==
    ASSUME TypeOK, Decision \in {"continue", "plateau"}
    PROVE  /\ \A b \in TokenBudget : tokensSpent < b
           /\ \A w \in MaxWallSeconds : elapsed < w
<1>1. /\ ~ \E b \in TokenBudget : tokensSpent >= b
      /\ ~ \E w \in MaxWallSeconds : elapsed >= w
  BY DEF Decision, BudgetDecision
<1>2. tokensSpent \in Nat /\ elapsed \in Nat
  BY CallsAssumption DEF TypeOK, CostType
<1>3. (\A b \in TokenBudget : b \in Nat) /\ (\A w \in MaxWallSeconds : w \in Nat)
  BY PolicyAssumption DEF IsOption
<1> QED BY <1>1, <1>2, <1>3

(* The longest call is one, and no other is longer. *)
HasLongest(S) == \E d \in S : \A e \in S : e <= d

LEMMA LongestIs ==
    ASSUME NEW S \in SUBSET Nat, HasLongest(S)
    PROVE  Longest(S) \in Nat /\ \A e \in S : e <= Longest(S)
BY DEF HasLongest, Longest

(* How far budgets may be overrun at each point of an attempt, with calls of at
   most L ticks and costs of at most C. *)
WallOK(w, L) ==
    /\ pc = "refactor" => elapsed <= w + retries * L
    /\ pc = "judge" => elapsed <= w + (MaxToolRetries + 1) * L
    /\ elapsed <= w + (MaxToolRetries + 2) * L

TokensOK(b, C) ==
    /\ pc = "refactor" => tokensSpent <= b
    /\ tokensSpent <= b + C

(* The slack of an attempt grows by one call with every call. *)
LEMMA SlackGrows ==
    ASSUME NEW L \in Nat, NEW r \in 0..MaxToolRetries
    PROVE  /\ r * L + L = (r + 1) * L
           /\ (r + 1) * L <= (MaxToolRetries + 1) * L
           /\ r * L <= (MaxToolRetries + 2) * L
           /\ (MaxToolRetries + 1) * L + L = (MaxToolRetries + 2) * L
           /\ r * L \in Nat /\ (MaxToolRetries + 1) * L \in Nat
           /\ (MaxToolRetries + 2) * L \in Nat
<1>1. MaxToolRetries \in Nat /\ r \in Nat /\ MaxToolRetries - r \in Nat
  BY LimitsAssumption
<1>2. (MaxToolRetries - r) * L \in Nat /\ r * L \in Nat /\ MaxToolRetries * L \in Nat
  BY <1>1
<1>3. MaxToolRetries * L = r * L + (MaxToolRetries - r) * L
  BY <1>1
<1> QED BY <1>1, <1>2, <1>3

(* A call takes its time, or less where the clock saturates. *)
LEMMA ElapseBound ==
    ASSUME NEW d \in Durations, Elapse(d), CostType
    PROVE  elapsed' <= elapsed + d /\ elapsed' \in Nat /\ elapsed \in Nat /\ d \in Nat
BY CallsAssumption DEF Elapse, CostType

(* Without a compression pass each step keeps the clock within its slack. *)
LEMMA WallStep ==
    ASSUME TypeOK, Progress, [Next]_vars, ~Compressor, NEW w \in MaxWallSeconds,
           NEW L \in Nat, \A d \in Durations : d <= L, WallOK(w, L)
    PROVE  WallOK(w, L)'
<1> USE DEF toolVars, storeVars, keptVars, pivotVars, costVars, reflectVars, callVars, endVars
<1>0. /\ w \in Nat /\ retries \in 0..MaxToolRetries /\ elapsed \in Nat /\ CostType
      /\ MaxToolRetries \in Nat
  BY PolicyAssumption, CallsAssumption, LimitsAssumption
     DEF IsOption, TypeOK, CallType, CostType
<1>1. CASE Continue \/ Pivot
  <2>1. /\ pc' = "refactor" /\ elapsed' = elapsed /\ retries' = retries
        /\ Decision \in {"continue", "plateau"}
    BY <1>1 DEF Continue, Pivot, CanPivot, BeginRefactor
  <2>2. elapsed < w
    BY <2>1, WithinBudget
  <2>3. w <= w + retries * L /\ elapsed <= w + (MaxToolRetries + 2) * L
    BY <1>0, SlackGrows DEF WallOK
  <2> QED BY <1>0, <2>1, <2>2, <2>3, SlackGrows DEF WallOK
<1>2. CASE RetryRefactor \/ RefactorReturns
  <2>1. /\ pc = "refactor"
        /\ \/ pc' = "refactor" /\ retries < MaxToolRetries /\ retries' = retries + 1
           \/ pc' = "judge"
    BY <1>2 DEF RetryRefactor, RefactorReturns
  <2>2. PICK d \in Durations : Elapse(d)
    BY <1>2 DEF RetryRefactor, RefactorReturns, CallRefiner
  <2>3. elapsed' <= elapsed + L /\ elapsed' \in Nat
    BY <1>0, <2>2, ElapseBound
  <2>4. elapsed' <= w + (retries + 1) * L
    BY <1>0, <2>1, <2>3, SlackGrows DEF WallOK
  <2>5. elapsed' <= w + (MaxToolRetries + 1) * L /\ elapsed' <= w + (MaxToolRetries + 2) * L
    BY <1>0, <2>3, <2>4, SlackGrows
  <2> QED BY <1>0, <2>1, <2>4, <2>5 DEF WallOK
<1>3. CASE JudgeRefactor
  <2>1. pc = "judge" /\ pc' = "apply"
    BY <1>3 DEF JudgeRefactor
  <2>2. PICK d \in Durations : Elapse(d)
    BY <1>3 DEF JudgeRefactor
  <2>3. elapsed' <= elapsed + L /\ elapsed' \in Nat
    BY <1>0, <2>2, ElapseBound
  <2>4. elapsed' <= w + (MaxToolRetries + 2) * L
    BY <1>0, <2>1, <2>3, SlackGrows DEF WallOK
  <2> QED BY <2>1, <2>4 DEF WallOK
<1>4. CASE \/ JudgeBaseline \/ Finish \/ SafetyHalt \/ Reverse \/ RollBack \/ Accept \/ Raise
           \/ UNCHANGED vars
  <2>1. elapsed' = elapsed /\ retries' = retries /\ (pc' \in {"refactor", "judge"} => pc' = pc)
    BY <1>4 DEF JudgeBaseline, Finish, SafetyHalt, Reverse, RollBack, Accept, Raise, vars
  <2> QED BY <2>1 DEF WallOK
<1>5. ~(SkipCompression \/ Consolidate \/ AcceptCompression \/ RollBackCompression)
  BY DEF Progress, Compressing, SkipCompression, Consolidate, AcceptCompression,
         RollBackCompression
<1> QED BY <1>1, <1>2, <1>3, <1>4, <1>5 DEF Next, Step

(* And the tokens that are counted. *)
LEMMA TokensStep ==
    ASSUME TypeOK, [Next]_vars, NEW b \in TokenBudget,
           NEW C \in Nat, \A c \in Costs : c <= C, TokensOK(b, C)
    PROVE  TokensOK(b, C)'
<1> USE DEF toolVars, storeVars, keptVars, pivotVars, costVars, reflectVars, callVars, endVars
<1>0. b \in Nat /\ tokensSpent \in Nat /\ Costs \subseteq Nat
  BY PolicyAssumption, CallsAssumption DEF IsOption, TypeOK, CostType
<1>1. CASE Continue \/ Pivot
  <2>1. tokensSpent' = tokensSpent /\ Decision \in {"continue", "plateau"}
    BY <1>1 DEF Continue, Pivot, CanPivot, BeginRefactor
  <2> QED BY <1>0, <2>1, WithinBudget DEF TokensOK
<1>2. CASE RefactorReturns
  <2>1. pc = "refactor" /\ pc' = "judge"
    BY <1>2 DEF RefactorReturns
  <2>2. PICK c \in Costs : tokensSpent' = tokensSpent + c
    BY <1>2 DEF RefactorReturns
  <2> QED BY <1>0, <2>1, <2>2 DEF TokensOK
<1>3. CASE \/ JudgeBaseline \/ Finish \/ JudgeRefactor \/ SafetyHalt \/ Reverse \/ RollBack
           \/ Accept \/ Raise \/ UNCHANGED vars
  <2>1. tokensSpent' = tokensSpent /\ (pc' = "refactor" => pc' = pc)
    BY <1>3 DEF JudgeBaseline, Finish, JudgeRefactor, SafetyHalt, Reverse, RollBack, Accept,
                Raise, vars
  <2> QED BY <2>1 DEF TokensOK
<1>4. CASE RetryRefactor \/ SkipCompression \/ Consolidate \/ AcceptCompression
           \/ RollBackCompression
  <2>1. tokensSpent' = tokensSpent /\ (pc' = "refactor" => pc' = pc)
    BY <1>4 DEF RetryRefactor, SkipCompression, Consolidate, AcceptCompression,
                RollBackCompression, KeepCompressed
  <2> QED BY <2>1 DEF TokensOK
<1> QED BY <1>1, <1>2, <1>3, <1>4 DEF Next, Step

WallsOK(L) == \A w \in MaxWallSeconds : WallOK(w, L)
AllTokensOK(C) == \A b \in TokenBudget : TokensOK(b, C)

(* Where every call has a timeout, every report a greatest cost and no engine
   compresses, the budgets are overrun by the calls and the judgement of one
   attempt at most, however many retries, roll-backs and pivots there are. *)
THEOREM OverrunTheorem ==
    ASSUME ~Compressor, HasLongest(Durations), HasLongest(Costs)
    PROVE  Spec => []OverrunIsOneAttempt
<1> DEFINE L == Longest(Durations)
           C == Longest(Costs)
           Inv == TypeOK /\ RowsOK /\ Progress /\ WallsOK(L) /\ AllTokensOK(C)
<1>0. /\ L \in Nat /\ \A d \in Durations : d <= L
      /\ C \in Nat /\ \A c \in Costs : c <= C
  BY LongestIs, CallsAssumption
<1> HIDE DEF L, C
<1>1. Init => Inv
  <2> SUFFICES ASSUME Init PROVE WallsOK(L) /\ AllTokensOK(C)
    BY InitInv, InitProgress
  <2>1. pc = "start" /\ elapsed = 0 /\ tokensSpent = 0
    BY DEF Init
  <2>2. 0 \in 0..MaxToolRetries
    BY LimitsAssumption
  <2>3. (MaxToolRetries + 2) * L \in Nat
    BY <1>0, <2>2, SlackGrows
  <2>4. (\A w \in MaxWallSeconds : w \in Nat) /\ (\A b \in TokenBudget : b \in Nat)
    BY PolicyAssumption DEF IsOption
  <2> QED BY <1>0, <2>1, <2>3, <2>4 DEF WallsOK, AllTokensOK, WallOK, TokensOK
<1>2. Inv /\ [Next]_vars => Inv'
  <2> SUFFICES ASSUME Inv, [Next]_vars PROVE Inv'
    OBVIOUS
  <2>1. TypeOK' /\ RowsOK' /\ Progress'
    BY TypeStep, ProgressStep
  <2>2. WallsOK(L)'
    BY <1>0, WallStep DEF WallsOK
  <2>3. AllTokensOK(C)'
    BY <1>0, TokensStep DEF AllTokensOK
  <2> QED BY <2>1, <2>2, <2>3
<1>3. Inv => OverrunIsOneAttempt
  BY DEF OverrunIsOneAttempt, WallsOK, AllTokensOK, WallOK, TokensOK, L, C
<1> QED BY <1>1, <1>2, <1>3, PTL DEF Spec

-----------------------------------------------------------------------------
(* The plateau.                                                            *)

(* By how much a safe row may exceed the kept one without being accepted. *)
Slack == IF ScoreMode THEN MinScoreGain ELSE 0

NoBetter(j, k) == Value(rows[j].rep) <= Value(rows[k].rep) + Slack

(* The rows whose fate is decided: the one being applied is not. *)
Judged == IF pc = "apply" THEN n - 1 ELSE n

(* The row that was accepted i-th replaced the best of those before it. *)
IsStep(i) ==
    /\ IsRefactor(lineage[i])
    /\ \A j \in 1..(lineage[i] - 1) : NoBetter(j, lineage[i-1])

History == \A i \in DOMAIN lineage \ {1} : IsStep(i)

(* Where no fork card reverses and nothing compresses, a row that was not kept
   is no better than the one it was measured against, up to the noise band, so
   no earlier row is better than the one that an accepted row has replaced. *)
GainOK ==
    /\ pc = "apply" => IsRefactor(n)
    /\ History
    /\ pc \in {"evaluate", "refactor", "judge", "apply"} => \A j \in 1..Judged : NoBetter(j, kept)
    /\ pc # "done" => reason # "plateau"
    /\ PlateauMeansNoGain

(* What the judge reports is compared as an integer. *)
LEMMA ValueType ==
    /\ Slack \in Nat
    /\ \A r \in Reports : Value(r) \in Int
BY ReportsAssumption, PolicyAssumption DEF Slack, Value, Ranks

(* An improvement is worth more than the noise band, or a letter no worse;
   what is safe and no improvement is worth no more than it. *)
LEMMA ImprovementMeans ==
    ASSUME NEW old \in Reports, NEW new \in Reports
    PROVE  /\ IsImprovement(old, new) => Value(old) <= Value(new)
           /\ IsImprovement(old, new) /\ Value(new) <= Value(old) + Slack
                => Value(new) <= Value(old)
           /\ ~IsImprovement(old, new) => Value(new) <= Value(old) + Slack
<1>1. /\ old.grade \in Int /\ new.grade \in Int /\ old.score \in Int /\ new.score \in Int
      /\ MinScoreGain \in Nat
  BY ReportsAssumption, PolicyAssumption DEF Ranks
<1>2. CASE ScoreMode
  BY <1>1, <1>2 DEF IsImprovement, Value, Slack
<1>3. CASE ~ScoreMode
  BY <1>1, <1>3 DEF IsImprovement, Value, Slack
<1> QED BY <1>2, <1>3

(* The rows that the lineage joins are rows of the store. *)
LEMMA LineageRows ==
    ASSUME TypeOK, RowsOK, LineageOK
    PROVE  /\ n \in Nat /\ lineage \in Seq(Nat) /\ Len(lineage) \in Nat
           /\ DOMAIN lineage = 1..Len(lineage) /\ Len(rows) = n
           /\ \A i \in DOMAIN lineage : lineage[i] \in 1..n
           /\ \A i \in DOMAIN lineage \ {1} : i - 1 \in DOMAIN lineage /\ lineage[i-1] \in 1..n
           /\ \A k \in 1..n : rows[k].rep \in Reports /\ Value(rows[k].rep) \in Int
<1>1. n \in Nat /\ lineage \in Seq(Nat) /\ Len(rows) = n /\ StoreType
  BY DEF TypeOK, StoreType, KeptType, RowsOK
<1>2. Len(lineage) \in Nat /\ DOMAIN lineage = 1..Len(lineage)
  BY <1>1
<1>3. \A i \in DOMAIN lineage : lineage[i] \in 1..n
  BY DEF LineageOK, EntriesOK
<1>4. \A i \in DOMAIN lineage \ {1} : i - 1 \in DOMAIN lineage /\ lineage[i-1] \in 1..n
  BY <1>2, <1>3
<1>5. \A k \in 1..n : rows[k].rep \in Reports /\ Value(rows[k].rep) \in Int
  BY <1>1, RowReport, ValueType
<1> QED BY <1>1, <1>2, <1>3, <1>4, <1>5

(* When the policy sees a plateau, what was accepted lately is no better than
   what it replaced. *)
LEMMA PlateauLemma ==
    ASSUME TypeOK, RowsOK, LineageOK, WindowOK, GainOK, Plateaued,
           NEW i \in DOMAIN lineage \ {1}, lineage[i] > n - PlateauPatience
    PROVE  Value(rows[lineage[i]].rep) <= Value(rows[lineage[i-1]].rep)
<1>1. /\ n \in Nat /\ Len(rows) = n /\ DOMAIN rows = 1..n
      /\ lineage[i] \in 1..n /\ lineage[i-1] \in 1..n /\ i \in DOMAIN lineage
      /\ \A k \in 1..n : rows[k].rep \in Reports /\ Value(rows[k].rep) \in Int
  BY LineageRows DEF TypeOK, StoreType
<1>2. PlateauPatience \in Nat /\ pivotOffset \in Nat /\ Slack \in Nat
  BY LimitsAssumption, ValueType DEF TypeOK, PivotType
<1>3. PICK k \in 1..n : k = lineage[i]
  BY <1>1
<1>4. PICK l \in 1..n : l = lineage[i-1]
  BY <1>1
<1>5. PICK j \in 1..n : j <= n - PlateauPatience /\ Value(rows[k].rep) <= Value(rows[j].rep)
  <2>1. n - pivotOffset > PlateauPatience
    BY <1>1 DEF Plateaued
  <2>2. k > pivotOffset /\ k > Len(rows) - PlateauPatience
    BY <1>1, <1>2, <1>3, <2>1
  <2> QED BY <1>1, <2>2 DEF Plateaued
<1>6. j < k
  BY <1>1, <1>2, <1>3, <1>5
<1>7. NoBetter(j, l)
  <2>1. j \in 1..(k - 1)
    BY <1>6
  <2> QED BY <1>3, <1>4, <2>1 DEF GainOK, History, IsStep
<1>8. Value(rows[k].rep) <= Value(rows[l].rep) + Slack
  BY <1>1, <1>2, <1>5, <1>7 DEF NoBetter
<1>9. IsImprovement(rows[l].rep, rows[k].rep)
  BY <1>3, <1>4 DEF GainOK, History, IsStep, LineageOK, LineageImproves
<1> QED BY <1>1, <1>3, <1>4, <1>8, <1>9, ImprovementMeans

(* Rows that stay compare as they did. *)
LEMMA NoBetterStays ==
    ASSUME TypeOK, RowsOK, [Next]_vars, NEW j \in 1..n, NEW k \in 1..n
    PROVE  NoBetter(j, k)' <=> NoBetter(j, k)
<1>1. rows'[j] = rows[j] /\ rows'[k] = rows[k]
  BY RowsStay
<1> QED BY <1>1 DEF NoBetter, Slack, Value, ScoreMode

(* While the lineage stays, so does what it says of earlier rows. *)
LEMMA GainStays ==
    ASSUME TypeOK, RowsOK, LineageOK, GainOK, [Next]_vars, lineage' = lineage
    PROVE  History'
<1> SUFFICES ASSUME NEW i \in DOMAIN lineage \ {1}
             PROVE  IsStep(i)'
  BY DEF History
<1>1. n \in Nat /\ lineage[i] \in 1..n /\ lineage[i-1] \in 1..n /\ i \in DOMAIN lineage
  BY LineageRows
<1>2. rows'[lineage[i]] = rows[lineage[i]]
  BY <1>1, RowsStay
<1>3. IsRefactor(lineage[i])'
  BY <1>2 DEF GainOK, History, IsStep, IsRefactor
<1>4. ASSUME NEW j \in 1..(lineage[i] - 1) PROVE NoBetter(j, lineage[i-1])'
  <2>1. j \in 1..n
    BY <1>1
  <2>2. NoBetter(j, lineage[i-1])
    BY DEF GainOK, History, IsStep
  <2>3. PICK l \in 1..n : l = lineage[i-1]
    BY <1>1
  <2>4. NoBetter(j, l)'
    BY <2>1, <2>2, <2>3, NoBetterStays
  <2>5. l = lineage'[i-1]
    BY <2>3
  <2> QED BY <2>4, <2>5
<1> QED BY <1>3, <1>4 DEF IsStep

(* Accepting the row that has just been judged: it replaced the best. *)
LEMMA GainGrows ==
    ASSUME TypeOK, RowsOK, LineageOK, GainOK, [Next]_vars, Accept
    PROVE  /\ History'
           /\ \A j \in 1..n : NoBetter(j, n)'
<1>1. /\ lineage' = Append(lineage, n) /\ rows' = rows /\ n' = n /\ kept' = n
      /\ pc = "apply" /\ AfterBaseline /\ Improved
  BY DEF Accept, storeVars, AfterBaseline
<1>2. /\ n \in Nat /\ lineage \in Seq(Nat) /\ Len(lineage) \in Nat
      /\ DOMAIN lineage = 1..Len(lineage)
      /\ \A i \in DOMAIN lineage : lineage[i] \in 1..n
      /\ \A k \in 1..n : rows[k].rep \in Reports /\ Value(rows[k].rep) \in Int
  BY LineageRows
<1>3. lineage # <<>> /\ lineage[Len(lineage)] = kept /\ kept \in 1..n /\ n \in 1..n
  BY <1>1, <1>2 DEF LineageOK, RowsOK
<1>4. /\ Len(lineage') = Len(lineage) + 1 /\ DOMAIN lineage' = 1..(Len(lineage) + 1)
      /\ \A i \in 1..Len(lineage) : lineage'[i] = lineage[i]
      /\ lineage'[Len(lineage) + 1] = n
  BY <1>1, <1>2, AppendProperties
<1>5. \A j \in 1..(n - 1) : NoBetter(j, kept)
  BY <1>1 DEF GainOK, Judged
<1>6. \A j, k \in 1..n : NoBetter(j, k)' <=> NoBetter(j, k)
  BY NoBetterStays
<1>7. ASSUME NEW i \in DOMAIN lineage' \ {1} PROVE IsStep(i)'
  <2>1. CASE i = Len(lineage) + 1
    <3>1. lineage'[i] = n /\ lineage'[i-1] = kept
      <4>1. i - 1 = Len(lineage) /\ Len(lineage) \in 1..Len(lineage)
        BY <1>2, <1>4, <2>1
      <4> QED BY <1>3, <1>4, <2>1, <4>1
    <3>2. IsRefactor(n)'
      BY <1>1 DEF GainOK, IsRefactor
    <3>3. \A j \in 1..(n - 1) : NoBetter(j, lineage[i-1])'
      <4>1. PICK k \in 1..n : k = kept
        BY <1>3
      <4>2. \A j \in 1..(n - 1) : NoBetter(j, k)'
        BY <1>2, <1>5, <1>6, <4>1
      <4>3. k = lineage'[i-1]
        BY <3>1, <4>1
      <4> QED BY <4>2, <4>3
    <3> QED BY <1>1, <3>1, <3>2, <3>3 DEF IsStep
  <2>2. CASE i # Len(lineage) + 1
    <3>1. i \in DOMAIN lineage \ {1} /\ i - 1 \in DOMAIN lineage
      BY <1>2, <1>4, <2>2
    <3>2. PICK k, l \in 1..n : k = lineage[i] /\ l = lineage[i-1]
      BY <1>2, <3>1
    <3>3. k = lineage'[i] /\ l = lineage'[i-1]
      BY <1>2, <1>4, <3>1, <3>2
    <3>4. IsRefactor(k) /\ \A j \in 1..(k - 1) : NoBetter(j, l)
      BY <3>1, <3>2 DEF GainOK, History, IsStep
    <3>5. IsRefactor(k)' /\ \A j \in 1..(k - 1) : NoBetter(j, l)'
      BY <1>1, <1>2, <1>6, <3>4 DEF IsRefactor
    <3> QED BY <3>3, <3>5 DEF IsStep
  <2> QED BY <2>1, <2>2
<1>8. ASSUME NEW j \in 1..n PROVE NoBetter(j, n)'
  <2>1. Value(rows[kept].rep) <= Value(rows[n].rep)
    BY <1>1, <1>2, <1>3, ImprovementMeans DEF Improved, verdict, newVerdict
  <2>2. NoBetter(j, n)
    <3>1. CASE j = n
      BY <1>2, <3>1, ValueType DEF NoBetter
    <3>2. CASE j # n
      <4>1. Value(rows[j].rep) <= Value(rows[kept].rep) + Slack
        BY <1>2, <1>5, <3>2 DEF NoBetter
      <4> QED BY <1>2, <1>3, <2>1, <4>1, ValueType DEF NoBetter
    <3> QED BY <3>1, <3>2
  <2> QED BY <1>1, <1>3, <1>6, <2>2
<1> QED BY <1>7, <1>8 DEF History

(* The rows that have been judged against the kept one. *)
Beaten ==
    /\ pc = "apply" => IsRefactor(n)
    /\ pc \in {"evaluate", "refactor", "judge", "apply"} => \A j \in 1..Judged : NoBetter(j, kept)

(* Every step of run() keeps both comparisons, where nothing reverses. *)
LEMMA BeatenStep ==
    ASSUME TypeOK, RowsOK, LineageOK, Progress, GainOK, [Next]_vars,
           ~Compressor, "reverse" \notin Resolutions
    PROVE  Beaten' /\ History'
<1> USE DEF toolVars, storeVars, keptVars, pivotVars, costVars, reflectVars, callVars, endVars
<1>0. /\ n \in Nat /\ Len(rows) = n /\ ~Compressing /\ ~ForkReversal
      /\ \A k \in 1..n : rows[k].rep \in Reports /\ Value(rows[k].rep) \in Int
      /\ AfterBaseline => kept \in 1..n
      /\ \A j, k \in 1..n : NoBetter(j, k)' <=> NoBetter(j, k)
  BY LineageRows, NoBetterStays DEF Progress, RowsOK, TypeOK, CallType, ForkReversal
<1>1. CASE JudgeBaseline
  <2>1. PICK r \in Reports : Record(Row(r, "initial"))
    BY <1>1 DEF JudgeBaseline
  <2>2. n' = 1 /\ kept' = 1 /\ pc' = "evaluate" /\ lineage' = <<1>>
    BY <1>0, <1>1 DEF JudgeBaseline, Record, RowsOK
  <2>3. rows'[1].rep = r
    <3>1. rows'[n + 1] = Row(r, "initial") /\ n = 0
      BY <1>0, <1>1, <2>1, RowType, RecordKeeps DEF JudgeBaseline, RowsOK, TypeOK
    <3> QED BY <3>1 DEF Row
  <2>4. Value(rows[1].rep)' \in Int
    BY <2>3, ValueType DEF Value, ScoreMode
  <2>5. NoBetter(1, 1)'
    BY <2>4, ValueType DEF NoBetter, Slack, ScoreMode
  <2>6. Beaten'
    BY <2>2, <2>5 DEF Beaten, Judged
  <2>7. DOMAIN lineage' \ {1} = {}
    BY <2>2
  <2> QED BY <2>6, <2>7 DEF History
<1>2. CASE JudgeRefactor
  <2>1. PICK r \in Reports : Record(Row(r, "refactor"))
    BY <1>2 DEF JudgeRefactor
  <2>2. /\ pc = "judge" /\ pc' = "apply" /\ n' = n + 1 /\ kept' = kept /\ lineage' = lineage
        /\ rows'[n + 1] = Row(r, "refactor")
    BY <1>0, <1>2, <2>1, RowType, RecordKeeps DEF JudgeRefactor, TypeOK
  <2>3. IsRefactor(n)'
    BY <2>2 DEF IsRefactor, Row
  <2>4. ASSUME NEW j \in 1..n PROVE NoBetter(j, kept)'
    <3>1. PICK k \in 1..n : k = kept
      BY <1>0, <2>2 DEF AfterBaseline
    <3>2. NoBetter(j, k)'
      BY <1>0, <2>2, <3>1 DEF GainOK, Judged
    <3> QED BY <2>2, <3>1, <3>2
  <2>5. Judged' = n
    BY <1>0, <2>2 DEF Judged
  <2> QED BY <2>2, <2>3, <2>4, <2>5, GainStays DEF Beaten
<1>3. CASE Accept
  <2>1. /\ pc' = "evaluate" /\ kept' = n /\ n' = n
    BY <1>3 DEF Accept
  <2>2. Judged' = n
    BY <2>1 DEF Judged
  <2> QED BY <1>3, <2>1, <2>2, GainGrows DEF Beaten
<1>4. CASE RollBack
  <2>1. /\ pc = "apply" /\ pc' = "evaluate" /\ kept' = kept /\ n' = n /\ lineage' = lineage
        /\ newVerdict.safe /\ ~Improved
    BY <1>4 DEF RollBack
  <2>2. PICK k \in 1..n : k = kept /\ n \in 1..n
    BY <1>0, <2>1 DEF AfterBaseline
  <2>3. NoBetter(n, k)
    BY <1>0, <2>1, <2>2, ImprovementMeans DEF Improved, verdict, newVerdict, NoBetter
  <2>4. \A j \in 1..(n - 1) : NoBetter(j, k)
    BY <2>1, <2>2 DEF GainOK, Judged
  <2>5. \A j \in 1..n : NoBetter(j, k)'
    BY <1>0, <2>3, <2>4
  <2>6. Judged' = n /\ kept' = k
    BY <2>1, <2>2 DEF Judged
  <2> QED BY <2>1, <2>5, <2>6, GainStays DEF Beaten
<1>5. CASE Finish \/ SafetyHalt \/ Raise
  <2>1. pc' \in {"done", "raised"} /\ lineage' = lineage
    BY <1>5 DEF Finish, SafetyHalt, Raise
  <2> QED BY <2>1, GainStays DEF Beaten
<1>6. CASE Continue \/ Pivot \/ RetryRefactor \/ RefactorReturns
  <2>1. /\ pc \in {"evaluate", "refactor"} /\ pc' \in {"refactor", "judge"}
        /\ kept' = kept /\ n' = n /\ lineage' = lineage
    BY <1>6 DEF Continue, Pivot, BeginRefactor, RetryRefactor, RefactorReturns
  <2>2. PICK k \in 1..n : k = kept
    BY <1>0, <2>1 DEF AfterBaseline
  <2>3. \A j \in 1..n : NoBetter(j, k)'
    BY <1>0, <2>1, <2>2 DEF GainOK, Judged
  <2>4. Judged' = n /\ kept' = k
    BY <2>1, <2>2 DEF Judged
  <2> QED BY <2>1, <2>3, <2>4, GainStays DEF Beaten
<1>7. CASE UNCHANGED vars
  <2>1. lineage' = lineage
    BY <1>7 DEF vars
  <2>2. Beaten'
    BY <1>7 DEF vars, GainOK, Beaten, IsRefactor, Judged, NoBetter, Value, Slack, ScoreMode
  <2> QED BY <2>1, <2>2, GainStays
<1>8. ~(Reverse \/ SkipCompression \/ Consolidate \/ AcceptCompression \/ RollBackCompression)
  BY <1>0 DEF Reverse, SkipCompression, Consolidate, AcceptCompression, RollBackCompression,
              Compressing
<1> QED BY <1>1, <1>2, <1>3, <1>4, <1>5, <1>6, <1>7, <1>8 DEF Next, Step

(* So every step keeps what a stop for plateau says. *)
LEMMA GainStep ==
    ASSUME TypeOK, RowsOK, LineageOK, Progress, WindowOK, GainOK, [Next]_vars,
           ~Compressor, "reverse" \notin Resolutions
    PROVE  GainOK'
<1>1. Beaten' /\ History'
  BY BeatenStep
<1>2. (pc # "done" => reason # "plateau")' /\ PlateauMeansNoGain'
  <2>1. CASE UNCHANGED vars
    BY <2>1 DEF GainOK, PlateauMeansNoGain, Value, ScoreMode, vars, storeVars, keptVars, endVars
  <2>2. CASE Finish
    <3>1. /\ pc' = "done" /\ reason' = Decision
          /\ lineage' = lineage /\ rows' = rows /\ n' = n
      BY <2>2 DEF Finish, storeVars, keptVars
    <3>2. ASSUME Decision = "plateau"
          PROVE  \A i \in DOMAIN lineage \ {1} :
                    lineage[i] > n - PlateauPatience =>
                        Value(rows[lineage[i]].rep) <= Value(rows[lineage[i-1]].rep)
      BY <3>2, PlateauIsLate, PlateauLemma
    <3> QED BY <3>1, <3>2 DEF PlateauMeansNoGain, Value, ScoreMode
  <2>3. CASE /\ pc \notin {"done", "raised"}
             /\ \/ reason' = reason /\ pc' # "done"
                \/ reason' = "refactor_unsafe"
    <3>1. reason' # "plateau"
      BY <2>3 DEF GainOK
    <3> QED BY <3>1 DEF PlateauMeansNoGain
  <2>4. CASE Pivot
    <3>1. reason' = reason /\ pc = "evaluate"
      BY <2>4 DEF Pivot, BeginRefactor, endVars
    <3>2. reason' # "plateau"
      BY <3>1 DEF GainOK
    <3> QED BY <3>2 DEF PlateauMeansNoGain
  <2> QED BY <2>1, <2>2, <2>3, <2>4, PivotStep
<1> QED BY <1>1, <1>2 DEF GainOK, Beaten

(* Where no fork card can be reversed and no compression pass is wired, a stop
   for plateau means what its message says: no row of the last PlateauPatience
   was kept for a better grade, or score, than the verdict it replaced.  Either
   of the two breaks it: a reversed row, or one a compression pass has
   replaced, stays the best of the earlier rows. *)
THEOREM PlateauTheorem ==
    ASSUME ~Compressor, "reverse" \notin Resolutions PROVE Spec => []PlateauMeansNoGain
<1> DEFINE Inv == TypeOK /\ RowsOK /\ LineageOK /\ Progress /\ WindowOK /\ GainOK
<1>1. Init => Inv
  <2> SUFFICES ASSUME Init PROVE WindowOK /\ GainOK
    BY InitInv, InitLineage, InitProgress
  <2>1. WindowOK
    BY InitWindow
  <2>2. lineage = <<>> /\ pc = "start"
    BY DEF Init
  <2>3. DOMAIN lineage = {}
    BY <2>2
  <2>4. reason # "plateau"
    <3>1. reason = ""
      BY DEF Init
    <3> QED BY <3>1
  <2>5. GainOK
    BY <2>2, <2>3, <2>4 DEF GainOK, History, PlateauMeansNoGain
  <2> QED BY <2>1, <2>5
<1>2. Inv /\ [Next]_vars => Inv'
  BY TypeStep, LineageStep, ProgressStep, WindowStep, GainStep
<1>3. Inv => PlateauMeansNoGain
  BY DEF GainOK
<1> QED BY <1>1, <1>2, <1>3, PTL DEF Spec
-----------------------------------------------------------------------------
(* Termination.                                                            *)

(* What is still to come of an iteration, at each point of run(). *)
Stage ==
    CASE pc = "apply"               -> MaxToolRetries + 7
      [] pc = "compress"            -> MaxToolRetries + 6
      [] pc = "compress_judge"      -> MaxToolRetries + 5
      [] pc \in {"start", "evaluate"} -> MaxToolRetries + 4
      [] pc = "refactor"            -> MaxToolRetries - retries + 3
      [] pc = "judge"               -> 2
      [] OTHER                      -> 0

(* The steps run() may still take: the rows that may still be recorded, each
   with as many steps as an iteration has at most, and those of this one. *)
IterationSteps == MaxToolRetries + 8
StepsLeft == (MaxIterations + 2 - n) * IterationSteps + Stage

(* An iteration less is its steps less. *)
LEMMA LessToDo ==
    ASSUME NEW w \in Nat, NEW k \in Nat, NEW m \in Nat, NEW s \in Nat, NEW q \in Nat,
           (m = k /\ q < s) \/ (k = m + 1 /\ q < s + w)
    PROVE  m * w + q < k * w + s /\ m * w + q \in Nat
<1>1. m * w \in Nat /\ (m + 1) * w = m * w + w
  OBVIOUS
<1>2. CASE m = k /\ q < s
  BY <1>1, <1>2
<1>3. CASE k = m + 1 /\ q < s + w
  <2>1. k * w = m * w + w
    BY <1>1, <1>3
  <2> QED BY <1>1, <1>3, <2>1
<1> QED BY <1>2, <1>3

LEMMA RowsToCome ==
    ASSUME NEW a \in Nat, NEW b \in Nat, b <= a + 1
    PROVE  a + 2 - b \in Nat
<1>1. a + 2 - b \in Int /\ a + 2 - b >= 0
  OBVIOUS
<1> QED BY <1>1

LEMMA StageBound ==
    ASSUME TypeOK PROVE Stage \in 0..(MaxToolRetries + 7)
BY LimitsAssumption DEF TypeOK, CallType, Stage

(* Each step of run() either stays in its iteration and is nearer to its end,
   or records a row, of which there are only so many. *)
LEMMA StepsFall ==
    ASSUME TypeOK, RowsOK, Progress, TypeOK', RowsOK', Progress', Next
    PROVE  StepsLeft' < StepsLeft /\ StepsLeft' \in Nat
<1> USE DEF toolVars, storeVars, keptVars, pivotVars, costVars, reflectVars, callVars, endVars
<1>1. /\ n \in Nat /\ n' \in Nat /\ MaxIterations \in Nat /\ MaxToolRetries \in Nat
      /\ n <= MaxIterations + 1 /\ n' <= MaxIterations + 1
      /\ retries \in 0..MaxToolRetries /\ retries' \in 0..MaxToolRetries
  BY LimitsAssumption DEF TypeOK, StoreType, CallType, Progress
<1>2. Stage \in 0..(MaxToolRetries + 7) /\ Stage' \in 0..(MaxToolRetries + 7)
  BY <1>1, StageBound DEF TypeOK, CallType, Stage
<1>3. (n' = n /\ Stage' < Stage) \/ (n' = n + 1 /\ Stage' < Stage + IterationSteps)
  <2>1. CASE JudgeBaseline
    BY <1>1, <2>1 DEF JudgeBaseline, Record, Stage, IterationSteps
  <2>2. CASE Finish \/ Continue \/ Pivot
    BY <1>1, <2>2 DEF Finish, Continue, Pivot, BeginRefactor, Stage
  <2>3. CASE RetryRefactor \/ RefactorReturns
    BY <1>1, <2>3 DEF RetryRefactor, RefactorReturns, Stage
  <2>4. CASE JudgeRefactor
    BY <1>1, <2>4 DEF JudgeRefactor, Record, Stage, IterationSteps
  <2>5. CASE SafetyHalt \/ Reverse \/ RollBack \/ Accept
    BY <1>1, <2>5 DEF SafetyHalt, Reverse, RollBack, Accept, Stage
  <2>6. CASE SkipCompression \/ AcceptCompression \/ RollBackCompression
    BY <1>1, <2>6 DEF SkipCompression, AcceptCompression, RollBackCompression, KeepCompressed,
                      Record, Stage, IterationSteps
  <2>7. CASE Consolidate
    BY <1>1, <2>7 DEF Consolidate, Stage
  <2>8. CASE Raise
    <3>1. pc \in {"start", "refactor", "judge", "apply", "compress", "compress_judge"}
          /\ pc' = "raised" /\ n' = n
      BY <2>8 DEF Raise, TypeOK, ControlType
    <3> QED BY <1>1, <3>1 DEF Stage
  <2> QED BY <2>1, <2>2, <2>3, <2>4, <2>5, <2>6, <2>7, <2>8 DEF Next, Step
<1> DEFINE k == MaxIterations + 2 - n
           m == MaxIterations + 2 - n'
<1>4. k \in Nat /\ m \in Nat /\ (n' = n => m = k) /\ (n' = n + 1 => k = m + 1)
  <2>1. k \in Nat /\ m \in Nat
    BY <1>1, RowsToCome
  <2>2. n' = n => m = k
    BY <1>1
  <2>3. n' = n + 1 => k = m + 1
    BY <1>1
  <2> QED BY <2>1, <2>2, <2>3
<1>5. IterationSteps \in Nat
  BY <1>1 DEF IterationSteps
<1>6. (m = k /\ Stage' < Stage) \/ (k = m + 1 /\ Stage' < Stage + IterationSteps)
  BY <1>3, <1>4
<1>7. StepsLeft = k * IterationSteps + Stage /\ StepsLeft' = m * IterationSteps + Stage'
  BY DEF StepsLeft, IterationSteps
<1>8. Stage \in Nat /\ Stage' \in Nat
  BY <1>1, <1>2
<1> HIDE DEF k, m
<1>9. m * IterationSteps + Stage' < k * IterationSteps + Stage /\ m * IterationSteps + Stage' \in Nat
  BY <1>4, <1>5, <1>6, <1>8, LessToDo
<1> QED BY <1>7, <1>9

(* The loop ends, whatever the judge and the refiner answer: every step of
   run() lowers a natural number that the limits alone bound, whatever the
   budgets are, and it cannot go on retrying, pivoting or compressing. *)
THEOREM VariantTheorem == Spec => [][StepsLeft' < StepsLeft /\ StepsLeft' \in Nat]_vars
<1> DEFINE Inv == TypeOK /\ RowsOK /\ Progress
           Falls == StepsLeft' < StepsLeft /\ StepsLeft' \in Nat
<1>1. Init => Inv
  BY InitInv, InitProgress
<1>2. Inv /\ [Next]_vars => Inv'
  BY TypeStep, ProgressStep
<1>3. Inv /\ Inv' /\ [Next]_vars => [Falls]_vars
  BY StepsFall
<1> QED BY <1>1, <1>2, <1>3, PTL DEF Spec
=============================================================================
