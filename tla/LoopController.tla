--------------------------- MODULE LoopController ---------------------------
(***************************************************************************)
(* The judge -> refactor -> re-judge loop of LoopController.run            *)
(* (loop/controller.py) with the policy it calls (loop/convergence.py),    *)
(* the plateau query and the rows of the memory store (memory/store.py),   *)
(* the git checkpoint (loop/checkpoint.py) and the optional compression    *)
(* pass (compression.py).                                                  *)
(*                                                                         *)
(* The judge and the refiner are external programs: a judge call returns   *)
(* any report of Reports, a refiner call rewrites any set of paths.  A     *)
(* letter grade is its rank (grades.py), an optional budget is the set of  *)
(* its value, empty when the code has None, and the clock saturates at     *)
(* ClockBound.  The tool is a function from paths to contents, a content   *)
(* being the number of the refiner call that wrote it.                     *)
(***************************************************************************)
EXTENDS Integers, Sequences

CONSTANTS
    Reports,              \* what the judge may answer
    Dims, Fixtures,       \* the dimensions it scores, the fixtures it runs
    Paths,                \* the files of the tool
    NewPaths,             \* those a refactor may create: absent from the adopted tool
    Resolutions,          \* what the resolver may decide of a fork card
    Costs,                \* token costs a refiner call may report
    Durations,            \* clock ticks a refiner or judge call may take
    ClockBound,           \* the clock saturates here
    TargetGrade,          \* budget.target_grade, as a rank
    TargetScore,          \* budget.target_score, {} for the letter ladder
    MinScoreGain,         \* budget.min_score_gain
    MaxIterations,        \* budget.max_iterations
    PlateauPatience,      \* budget.plateau_patience
    PlateauPivots,        \* budget.plateau_pivots
    TokenBudget,          \* budget.token_budget, {} for None
    MaxWallSeconds,       \* budget.max_wall_seconds, {} for None
    MaxToolRetries,       \* budget.max_tool_retries
    Compressor,           \* is a compression engine wired?
    CompressionInterval,  \* budget.compression_interval
    MinLearnings,         \* CompressionEngine.min_learnings
    Absent, NoDim         \* a path that is not there; a brief without dimension

Ranks == -1..5
IsOption(s, S) == s \subseteq S /\ \A x, y \in s : x = y

ASSUME ReportsAssumption ==
    \A r \in Reports : /\ r.grade \in Ranks /\ r.score \in Int /\ r.safe \in BOOLEAN
                       /\ r.fails \subseteq Fixtures /\ r.ranked \in Seq(Dims)
ASSUME PathsAssumption == NewPaths \subseteq Paths /\ Absent \notin Nat
ASSUME CardsAssumption ==
    Resolutions \subseteq {"recorded", "keep_default", "reverse", "escalate"}
ASSUME CallsAssumption ==
    Costs \subseteq Nat /\ Durations \subseteq Nat /\ ClockBound \in Nat
ASSUME PolicyAssumption ==
    /\ TargetGrade \in Ranks /\ IsOption(TargetScore, Int) /\ MinScoreGain \in Nat
    /\ IsOption(TokenBudget, Nat) /\ IsOption(MaxWallSeconds, Nat)
ASSUME LimitsAssumption ==
    /\ MaxIterations \in Nat \ {0} /\ PlateauPatience \in Nat /\ PlateauPivots \in Nat
    /\ MaxToolRetries \in Nat
ASSUME CompressionAssumption ==
    /\ Compressor \in BOOLEAN /\ CompressionInterval \in Nat \ {0} /\ MinLearnings \in Nat

VARIABLES
    pc,             \* where run() is: which external call or decision comes next
    tree, edits,    \* the working tree, and how many refiner calls have written
    token,          \* the tree of the last snapshot
    rows,           \* the iterations table: verdict, tree it graded, diff_ref
    kept,           \* the row of the local `verdict`, the kept one
    n,              \* the iteration counter
    before,         \* CompressionEngine.run: its own first judgement
    retries,        \* `attempt` of _refactor_with_retry
    cards,          \* refiner.last_fork_cards, by how each is resolved
    lead,           \* brief.target_dimensions[0]
    tokensSpent, elapsed, accepted,
    pivotsUsed, pivotOffset, activeExclude, targeted,
    reflection, priorFails,
    forkCards,      \* the fork_cards table: iteration and decision
    learnings,      \* the learnings table: the row that was compounded
    run, reason,    \* the runs row's status, and the decision's reason code
    reported,       \* the row whose verdict is the run's final grade, 0 before
    lineage,        \* history: every row that has been the kept one, in order
    burnt           \* history: what all refiner calls have cost

toolVars    == <<tree, edits, token>>
storeVars   == <<rows, n, forkCards>>
keptVars    == <<kept, lineage, accepted, learnings>>
pivotVars   == <<pivotsUsed, pivotOffset, activeExclude, targeted, lead>>
costVars    == <<tokensSpent, burnt>>
reflectVars == <<reflection, priorFails>>
callVars    == <<retries, cards>>
endVars     == <<run, reason, reported>>
vars == <<pc, toolVars, storeVars, keptVars, pivotVars, costVars, elapsed,
          reflectVars, callVars, before, endVars>>

-----------------------------------------------------------------------------
(* The convergence policy.                                                 *)

ScoreMode == TargetScore # {}

ReachedTarget(r) ==
    IF ScoreMode THEN \A t \in TargetScore : r.score >= t ELSE r.grade >= TargetGrade

IsImprovement(old, new) ==
    LET scoreGain == new.score - old.score > MinScoreGain
    IN  IF ScoreMode THEN scoreGain
        ELSE new.grade > old.grade \/ (new.grade = old.grade /\ scoreGain)

Value(r) == IF ScoreMode THEN r.score ELSE r.grade

\* Mutant of Plateaued: the recent rows compared with the best of all rows.
PlateauedOnAll ==
    /\ PlateauPatience >= 1 /\ Len(rows) - pivotOffset > PlateauPatience
    /\ \A i \in DOMAIN rows : \E j \in DOMAIN rows : Value(rows[i].rep) <= Value(rows[j].rep)

(* No row of the last PlateauPatience beats the best of those before, among
   the rows since the last pivot. *)
Plateaued ==
    LET recent  == {i \in DOMAIN rows : i > pivotOffset /\ i > Len(rows) - PlateauPatience}
        earlier == {i \in DOMAIN rows : i > pivotOffset /\ i <= Len(rows) - PlateauPatience}
    IN  /\ PlateauPatience >= 1
        /\ Len(rows) - pivotOffset > PlateauPatience
        /\ \A i \in recent : \E j \in earlier : Value(rows[i].rep) <= Value(rows[j].rep)

verdict == rows[kept].rep

(* The caps in their order, then the plateau. *)
BudgetDecision(capped) ==
    IF capped THEN "iteration_cap"
    ELSE IF \E b \in TokenBudget : tokensSpent >= b THEN "token_cap"
    ELSE IF \E w \in MaxWallSeconds : elapsed >= w THEN "wall_cap"
    ELSE IF Plateaued THEN "plateau"
    ELSE "continue"

\* Mutants of Decision: the target before safety, a cap late by one.
DecisionTargetFirst ==
    IF ReachedTarget(verdict) THEN "converged"
    ELSE IF ~verdict.safe THEN "blocked_safety" ELSE BudgetDecision(n >= MaxIterations)
DecisionLateCap ==
    IF ~verdict.safe THEN "blocked_safety"
    ELSE IF ReachedTarget(verdict) THEN "converged" ELSE BudgetDecision(n > MaxIterations)

Decision ==
    IF ~verdict.safe THEN "blocked_safety"
    ELSE IF ReachedTarget(verdict) THEN "converged"
    ELSE BudgetDecision(n >= MaxIterations)

Terminal(d) == IF d \in {"blocked_safety", "converged"} THEN d ELSE "stopped"

\* Mutant of CanPivot: a budget that ran out pivots too.
CanPivotOnCap == Decision \in {"plateau", "token_cap", "wall_cap"} /\ pivotsUsed < PlateauPivots

CanPivot == Decision = "plateau" /\ pivotsUsed < PlateauPivots

(* The first target dimension of the brief: lowest score first, the excluded
   ones demoted behind the others. *)
LeadDimension(ranked, excluded) ==
    LET fresh == {i \in DOMAIN ranked : ranked[i] \notin excluded}
    IN  IF ranked = <<>> THEN NoDim
        ELSE IF fresh = {} THEN ranked[1]
        ELSE ranked[CHOOSE i \in fresh : \A j \in fresh : i <= j]

-----------------------------------------------------------------------------
(* The tool, its checkpoint and the clock.                                 *)

Trees == [Paths -> Nat \cup {Absent}]

Edit(written) ==
    /\ tree' = [p \in Paths |-> IF p \in written THEN edits + 1 ELSE tree[p]]
    /\ edits' = IF written = {} THEN edits ELSE edits + 1

\* Mutant of Restored: no roll-back at all.
RestoredNothing(t) == tree

(* git reset --hard: committed files come back, files created since stay. *)
Restored(t) == [p \in Paths |-> IF t[p] = Absent THEN tree[p] ELSE t[p]]

Restore == tree' = Restored(token) /\ UNCHANGED <<edits, token>>

Elapse(d) == elapsed' = IF elapsed + d < ClockBound THEN elapsed + d ELSE ClockBound

Row(r, diff) == [rep |-> r, of |-> tree, diff |-> diff]

Record(row) == n' = n + 1 /\ rows' = Append(rows, row)

(* The reflection handed to the next brief, from the report that is kept. *)
Reflect(r, outcome) ==
    /\ reflection' = [outcome |-> outcome, persistent |-> r.fails \cap priorFails,
                      new |-> r.fails \ priorFails]
    /\ priorFails' = priorFails \cup r.fails

-----------------------------------------------------------------------------
Init ==
    /\ pc = "start" /\ run = "running" /\ reason = "" /\ reported = 0
    /\ tree = [p \in Paths |-> IF p \in NewPaths THEN Absent ELSE 0]
    /\ edits = 0 /\ token = tree
    /\ rows = <<>> /\ n = 0 /\ forkCards = {} /\ learnings = <<>>
    /\ kept = 0 /\ lineage = <<>> /\ accepted = 0 /\ before = 0
    /\ pivotsUsed = 0 /\ pivotOffset = 0 /\ activeExclude = {} /\ targeted = {} /\ lead = NoDim
    /\ tokensSpent = 0 /\ burnt = 0 /\ elapsed = 0
    /\ retries = 0 /\ cards = {}
    /\ reflection = [outcome |-> "none", persistent |-> {}, new |-> {}] /\ priorFails = {}

(* The judge grades the adopted tool: the baseline row. *)
JudgeBaseline ==
    /\ pc = "start"
    /\ \E r \in Reports : Record(Row(r, "initial"))
    /\ kept' = 1 /\ lineage' = <<1>> /\ pc' = "evaluate"
    /\ UNCHANGED <<toolVars, forkCards, accepted, learnings, pivotVars, costVars, elapsed,
                   reflectVars, callVars, before, endVars>>

(* evaluate() says stop, and the stop is not a plateau with a pivot left: the
   grade of the kept verdict goes on the runs row. *)
Finish ==
    /\ pc = "evaluate" /\ Decision # "continue" /\ ~CanPivot
    /\ run' = Terminal(Decision) /\ reason' = Decision /\ reported' = kept /\ pc' = "done"
    /\ UNCHANGED <<toolVars, storeVars, keptVars, pivotVars, costVars, elapsed,
                   reflectVars, callVars, before>>

(* Snapshot the tool and write the brief, whose lead dimension is noted. *)
BeginRefactor(excluded, tried) ==
    /\ token' = tree
    /\ lead' = LeadDimension(verdict.ranked, excluded)
    /\ activeExclude' = excluded
    /\ targeted' = IF verdict.ranked = <<>> THEN tried ELSE tried \cup {lead'}
    /\ pc' = "refactor"
    /\ UNCHANGED <<tree, edits, storeVars, keptVars, costVars, elapsed, reflectVars,
                   callVars, before, endVars>>

Continue ==
    /\ pc = "evaluate" /\ Decision = "continue"
    /\ BeginRefactor(activeExclude, targeted)
    /\ UNCHANGED <<pivotsUsed, pivotOffset>>

\* Mutants of Pivot: the window is not restarted; the tried dimensions are lost.
PivotKeepsWindow ==
    /\ pc = "evaluate" /\ CanPivot
    /\ pivotsUsed' = pivotsUsed + 1 /\ UNCHANGED pivotOffset
    /\ BeginRefactor(activeExclude \cup targeted, {})
PivotForgetsTried ==
    /\ pc = "evaluate" /\ CanPivot
    /\ pivotsUsed' = pivotsUsed + 1 /\ pivotOffset' = n
    /\ BeginRefactor(activeExclude, {})

(* A plateau with a pivot left: demote the hammered dimensions, restart the
   window, and refactor without evaluating again. *)
Pivot ==
    /\ pc = "evaluate" /\ CanPivot
    /\ pivotsUsed' = pivotsUsed + 1 /\ pivotOffset' = n
    /\ BeginRefactor(activeExclude \cup targeted, {})

(* One refiner call, with what it may do to the tool, the clock and the cost. *)
CallRefiner(cost) ==
    /\ \E written \in SUBSET Paths : Edit(written)
    /\ \E d \in Durations : Elapse(d)
    /\ burnt' = burnt + cost

\* Mutant of RetryRefactor: one retry too many.
RetryOnceMore ==
    /\ pc = "refactor" /\ retries <= MaxToolRetries
    /\ \E cost \in Costs : CallRefiner(cost)
    /\ retries' = retries + 1
    /\ UNCHANGED <<pc, token, tokensSpent, cards, storeVars, keptVars, pivotVars,
                   reflectVars, before, endVars>>

(* An infra failure is retried: no evaluation, no accounting, no new row. *)
RetryRefactor ==
    /\ pc = "refactor" /\ retries < MaxToolRetries
    /\ \E cost \in Costs : CallRefiner(cost)
    /\ retries' = retries + 1
    /\ UNCHANGED <<pc, token, tokensSpent, cards, storeVars, keptVars, pivotVars,
                   reflectVars, before, endVars>>

(* The call that returns: a diff, no change, or the last infra failure. *)
RefactorReturns ==
    /\ pc = "refactor"
    /\ \E cost \in Costs : CallRefiner(cost) /\ tokensSpent' = tokensSpent + cost
    /\ cards' \in SUBSET Resolutions
    /\ retries' = 0 /\ pc' = "judge"
    /\ UNCHANGED <<token, storeVars, keptVars, pivotVars, reflectVars, before, endVars>>

(* Grade the refactored tool, record the row, then its fork cards. *)
JudgeRefactor ==
    /\ pc = "judge"
    /\ \E r \in Reports : Record(Row(r, "refactor"))
    /\ forkCards' = forkCards \cup {[iteration |-> n + 1, decision |-> c] : c \in cards}
    /\ \E d \in Durations : Elapse(d)
    /\ pc' = "apply"
    /\ UNCHANGED <<toolVars, keptVars, pivotVars, costVars, reflectVars, callVars,
                   before, endVars>>

newVerdict == rows[n].rep
ForkReversal == "reverse" \in cards

\* Mutant of Improved: a better grade is kept whatever the resolver ruled.
ImprovedDespiteReversal == newVerdict.safe /\ IsImprovement(verdict, newVerdict)

Improved == newVerdict.safe /\ ~ForkReversal /\ IsImprovement(verdict, newVerdict)

\* Mutant of SafetyHalt: the run stops, the unsafe build stays on disk.
SafetyHaltKeeps ==
    /\ pc = "apply" /\ ~newVerdict.safe
    /\ run' = "blocked_safety" /\ reason' = "refactor_unsafe" /\ reported' = n /\ pc' = "done"
    /\ UNCHANGED <<toolVars, storeVars, keptVars, pivotVars, costVars, elapsed, reflectVars,
                   callVars, before>>

(* The refactor broke safety: roll back, and the run is over, with the verdict
   of the refused build on the runs row. *)
SafetyHalt ==
    /\ pc = "apply" /\ ~newVerdict.safe
    /\ Restore
    /\ run' = "blocked_safety" /\ reason' = "refactor_unsafe" /\ reported' = n /\ pc' = "done"
    /\ UNCHANGED <<storeVars, keptVars, pivotVars, costVars, elapsed, reflectVars,
                   callVars, before>>

(* A grounded overrule of the agent's default: roll back, whatever the grade. *)
Reverse ==
    /\ pc = "apply" /\ newVerdict.safe /\ ForkReversal
    /\ Restore
    /\ Reflect(verdict, "reversed") /\ pc' = "evaluate"
    /\ UNCHANGED <<storeVars, keptVars, pivotVars, costVars, elapsed, callVars,
                   before, endVars>>

\* Mutants of RollBack: compounding what is not kept; not counting the attempt.
RollBackCompounds ==
    /\ pc = "apply" /\ newVerdict.safe /\ ~ForkReversal /\ ~Improved
    /\ Restore /\ learnings' = Append(learnings, n)
    /\ Reflect(verdict, "rolled_back") /\ pc' = "evaluate"
    /\ UNCHANGED <<storeVars, kept, lineage, accepted, pivotVars, costVars, elapsed,
                   callVars, before, endVars>>
RollBackUncounted ==
    /\ pc = "apply" /\ newVerdict.safe /\ ~ForkReversal /\ ~Improved
    /\ Restore /\ n' = n - 1 /\ rows' = SubSeq(rows, 1, n - 1)
    /\ Reflect(verdict, "rolled_back") /\ pc' = "evaluate"
    /\ UNCHANGED <<forkCards, keptVars, pivotVars, costVars, elapsed, callVars,
                   before, endVars>>

(* No gain: roll back and keep the prior verdict. *)
RollBack ==
    /\ pc = "apply" /\ newVerdict.safe /\ ~ForkReversal /\ ~Improved
    /\ Restore
    /\ Reflect(verdict, "rolled_back") /\ pc' = "evaluate"
    /\ UNCHANGED <<storeVars, keptVars, pivotVars, costVars, elapsed, callVars,
                   before, endVars>>

(* A gain: compound it, keep its verdict, and every CompressionInterval-th
   time go on to the compression pass. *)
Accept ==
    /\ pc = "apply" /\ Improved
    /\ learnings' = Append(learnings, n)
    /\ kept' = n /\ lineage' = Append(lineage, n) /\ accepted' = accepted + 1
    /\ IF Compressor /\ accepted' % CompressionInterval = 0
       THEN pc' = "compress" /\ UNCHANGED reflectVars
       ELSE pc' = "evaluate" /\ Reflect(newVerdict, "accepted")
    /\ UNCHANGED <<toolVars, storeVars, pivotVars, costVars, elapsed, callVars,
                   before, endVars>>

\* Mutant of KeepCompressed: the row is recorded, the local verdict not rebound.
KeepCompressedForgets(row) ==
    /\ Record(row) /\ UNCHANGED kept /\ lineage' = Append(lineage, n + 1)
    /\ Reflect(row.rep, "accepted") /\ pc' = "evaluate"
    /\ UNCHANGED <<edits, token, forkCards, accepted, pivotVars, costVars, elapsed,
                   callVars, before, endVars>>

-----------------------------------------------------------------------------
(* CompressionEngine.run, and the row the controller records for it.       *)

KeepCompressed(row) ==
    /\ Record(row) /\ kept' = n + 1 /\ lineage' = Append(lineage, n + 1)
    /\ Reflect(row.rep, "accepted") /\ pc' = "evaluate"
    /\ UNCHANGED <<edits, token, forkCards, accepted, pivotVars, costVars, elapsed,
                   callVars, before, endVars>>

(* Too few learnings: the fresh judgement replaces the kept one. *)
SkipCompression ==
    /\ pc = "compress" /\ Len(learnings) < MinLearnings
    /\ \E r \in Reports : KeepCompressed(Row(r, "compression"))
    /\ UNCHANGED <<tree, learnings>>

(* Judge, snapshot, and let the refiner consolidate. *)
Consolidate ==
    /\ pc = "compress" /\ Len(learnings) >= MinLearnings
    /\ \E r \in Reports : before' = Row(r, "compression")
    /\ token' = tree
    /\ \E cost \in Costs : CallRefiner(cost)
    /\ pc' = "compress_judge"
    /\ UNCHANGED <<storeVars, keptVars, pivotVars, tokensSpent, reflectVars, callVars, endVars>>

Neutral(r) == r.safe /\ r.grade >= before.rep.grade

(* Safe and no worse a letter than before: the consolidated tool stays. *)
AcceptCompression ==
    /\ pc = "compress_judge"
    /\ \E r \in Reports : Neutral(r) /\ KeepCompressed(Row(r, "compression"))
    /\ learnings' = Append(learnings, 0)
    /\ UNCHANGED tree

RollBackCompression ==
    /\ pc = "compress_judge"
    /\ \E r \in Reports : ~Neutral(r)
    /\ tree' = Restored(token)
    /\ KeepCompressed(before)
    /\ UNCHANGED learnings

-----------------------------------------------------------------------------
(* A collaborator raises, or the process is killed: run() unwinds with no
   handler of its own, and whatever was written so far stays. *)
Raise ==
    /\ pc \notin {"evaluate", "done", "raised"}
    /\ IF pc = "refactor" THEN \E written \in SUBSET Paths : Edit(written)
                          ELSE UNCHANGED <<tree, edits>>
    /\ \/ UNCHANGED learnings
       \/ pc = "apply" /\ Improved /\ learnings' = Append(learnings, n)
    /\ pc' = "raised"
    /\ UNCHANGED <<token, storeVars, kept, lineage, accepted, pivotVars, costVars, elapsed,
                   reflectVars, callVars, before, endVars>>

Step ==
    \/ JudgeBaseline \/ Finish \/ Continue \/ Pivot
    \/ RetryRefactor \/ RefactorReturns \/ JudgeRefactor
    \/ SafetyHalt \/ Reverse \/ RollBack \/ Accept
    \/ SkipCompression \/ Consolidate \/ AcceptCompression \/ RollBackCompression

Next == Step \/ Raise

(* Every external call has a timeout, so the single thread always goes on. *)
Spec == Init /\ [][Next]_vars /\ WF_vars(Step)

-----------------------------------------------------------------------------
(* Properties.                                                             *)

RowSet == [rep : Reports, of : Trees, diff : {"initial", "refactor", "compression"}]

ControlType ==
    /\ pc \in {"start", "evaluate", "refactor", "judge", "apply", "compress",
               "compress_judge", "done", "raised"}
    /\ run \in {"running", "converged", "blocked_safety", "stopped"}
    /\ reason \in {"", "blocked_safety", "converged", "iteration_cap", "token_cap",
                   "wall_cap", "plateau", "refactor_unsafe"}
    /\ reported \in Nat

ToolType == tree \in Trees /\ token \in Trees /\ edits \in Nat

StoreType ==
    /\ rows \in Seq(RowSet) /\ n \in Nat
    /\ forkCards \subseteq [iteration : Nat, decision : Resolutions]
    /\ learnings \in Seq(Nat)

KeptType == kept \in Nat /\ lineage \in Seq(Nat) /\ accepted \in Nat

CallType == retries \in 0..MaxToolRetries /\ cards \subseteq Resolutions

CostType == tokensSpent \in Nat /\ burnt \in Nat /\ elapsed \in 0..ClockBound

PivotType ==
    /\ pivotsUsed \in 0..PlateauPivots /\ pivotOffset \in Nat
    /\ activeExclude \subseteq Dims \cup {NoDim} /\ targeted \subseteq Dims \cup {NoDim}
    /\ lead \in Dims \cup {NoDim}

ReflectionType ==
    /\ reflection \in [outcome : {"none", "reversed", "accepted", "rolled_back"},
                       persistent : SUBSET Fixtures, new : SUBSET Fixtures]
    /\ priorFails \subseteq Fixtures

(* Every variable has its type. *)
TypeOK ==
    /\ ControlType /\ ToolType /\ StoreType /\ KeptType /\ CallType /\ CostType
    /\ PivotType /\ ReflectionType
    /\ pc = "compress_judge" => before \in RowSet

IsRefactor(k) == rows[k].diff = "refactor"
Reversed(k) == [iteration |-> k, decision |-> "reverse"] \in forkCards

(* Whenever run() decides or has ended, the files on disk are those the kept
   verdict graded: no retry, rejection, reversal, safety halt or compression
   leaves another tool behind (the roll-backs of _apply_outcome and of
   CompressionEngine.run). *)
TreeIsGraded == pc \in {"evaluate", "done"} => tree = rows[kept].of

(* A run reported as converged has on disk the very tool whose verdict it
   reports, and the judge graded that one safe and at target and no grounded
   fork resolution overruled it. *)
ConvergedIsEarned ==
    run = "converged" => /\ rows[reported].of = tree /\ ~Reversed(reported)
                         /\ rows[reported].rep.safe /\ ReachedTarget(rows[reported].rep)

(* Each refactor kept is safe, was not reversed, and improves on the verdict
   kept before it, however many rejected rows lie between the two. *)
LineageImproves ==
    \A i \in DOMAIN lineage \ {1} :
        LET k == lineage[i]
        IN  IsRefactor(k) => /\ rows[k].rep.safe /\ ~Reversed(k)
                             /\ IsImprovement(rows[lineage[i-1]].rep, rows[k].rep)

(* /ce-compound fires for the refactors that are kept and for no other. *)
CompoundedIsKept ==
    pc # "raised" =>
        {k \in DOMAIN rows : IsRefactor(k) /\ \E i \in DOMAIN learnings : learnings[i] = k}
            = {k \in DOMAIN rows : IsRefactor(k) /\ \E i \in DOMAIN lineage : lineage[i] = k}

(* max_iterations bounds the judged attempts, every one of which has its row;
   the one excess there is is the compression row of the last accepted one. *)
IterationBound ==
    /\ Len(rows) = n
    /\ n <= MaxIterations \/ (n = MaxIterations + 1 /\ rows[n].diff = "compression")

(* A stop for plateau comes after every pivot was spent, each of them having
   had a full window of PlateauPatience rows after the first of its own. *)
PivotsGetTheirWindow ==
    reason = "plateau" =>
        pivotsUsed = PlateauPivots /\ n >= (PlateauPivots + 1) * (PlateauPatience + 1)

(* "plateau: no gain over N iterations": none of the last PlateauPatience rows
   was kept for a better grade (or score) than the verdict it replaced. *)
PlateauMeansNoGain ==
    reason = "plateau" =>
        \A i \in DOMAIN lineage \ {1} :
            lineage[i] > n - PlateauPatience =>
                Value(rows[lineage[i]].rep) <= Value(rows[lineage[i-1]].rep)

(* When a refactor breaks safety the files are rolled back to the tool of the
   kept verdict, which is a safe one, while the run reports the verdict of the
   build that was refused, and never that of the tool it leaves. *)
SafetyRollsBack ==
    reason = "refactor_unsafe" =>
        /\ tree = rows[kept].of /\ rows[kept].rep.safe
        /\ reported = n /\ ~rows[reported].rep.safe

(* A fixture called new to the next brief was failing in no earlier verdict
   that the loop had kept. *)
NewIsFirstSeen ==
    pc = "evaluate" =>
        \A i \in 1..(Len(lineage) - 1) : reflection.new \cap rows[lineage[i]].rep.fails = {}

(* After a pivot the brief leads with a dimension not tried since the last
   one, unless every dimension the judge reports has been tried. *)
PivotRotates ==
    [][pivotsUsed' > pivotsUsed =>
         \/ lead' \notin targeted
         \/ \A i \in DOMAIN verdict.ranked : verdict.ranked[i] \in activeExclude']_vars

Longest(S) == CHOOSE d \in S : \A e \in S : e <= d

(* The budgets are looked at between attempts only, so that they are overrun,
   but by no more than one attempt: the wall budget by its calls, retries
   included, and its judgement, the token budget by the one call that is
   counted, and no pivot or roll-back makes it two. *)
OverrunIsOneAttempt ==
    /\ \A w \in MaxWallSeconds : elapsed <= w + (MaxToolRetries + 2) * Longest(Durations)
    /\ \A b \in TokenBudget : tokensSpent <= b + Longest(Costs)

(* "wall time is bounded by the wall-clock budget": a failed call is not
   retried once the wall budget is used up. *)
RetryWithinWall ==
    pc = "refactor" /\ retries > 0 => \A w \in MaxWallSeconds : elapsed < w

(* The loop ends, whatever the judge and the refiner answer. *)
Termination == <>(pc \in {"done", "raised"})
=============================================================================
