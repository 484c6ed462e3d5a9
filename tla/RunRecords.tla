----------------------------- MODULE RunRecords -----------------------------
(***************************************************************************)
(* The commands that share one SQLite file: `run`, `demo proof` and the    *)
(* library calls run_loop and run_refine_loop (cli.py, autonomous/         *)
(* runner.py), `demo record` (cli.py, proof.py, autonomous/report.py) and  *)
(* `learnings import` (memory/portability.py), each a process of its own   *)
(* that may be killed anywhere.  A step is one transaction of              *)
(* memory/store.py, or one file written.                                   *)
(*                                                                         *)
(* The loop inside a run is that of LoopController on the letters, which   *)
(* may stop at any row: the kept one only gets better, safety ends it.     *)
(* Grades are ranks.  A request is what the caller asks and finds:         *)
(* arguments, the gate, the CI variable, the host, the generated tool.     *)
(***************************************************************************)
EXTENDS RunContract

CONSTANTS Requests,       \* the calls that may be made
          Verdicts,       \* what the judge may answer: [grade, safe, fails]
          Corpus,         \* the file that is imported: [target, lane, note, ref, delta]
          Sanitized,      \* sanitize_text, on the notes of the corpus
          MaxRuns         \* bound: rows of the runs table

(* --confirm is a flag; the file is a list of records. *)
ASSUME RequestsAssumption == \A req \in Requests : req.confirmed \in BOOLEAN
ASSUME CorpusAssumption == Corpus \in Seq(Range(Corpus))

VARIABLES runs,      \* [target, lane, goal, status, final, finished, injected]
          iters,     \* by run, its iterations in order
          learned,   \* [run, note, ref, delta]
          confirms,  \* [run, confirmed]
          job,       \* the process that runs a loop
          importer,  \* the process that imports Corpus
          recorder,  \* the process that publishes a run
          card,      \* demos/results/<id>.json, [run |-> 0] before it is written
          report     \* demos/results/<id>.report.md

store == <<runs, iters, learned, confirms>>
vars == <<store, job, importer, recorder, card, report>>

Idle == [pc |-> "idle"]
Terminal == {"converged", "stopped", "blocked_safety"}
Grades(r) == [k \in DOMAIN iters[r] |-> iters[r][k].grade]
Anchor == "imported learning corpus"

-----------------------------------------------------------------------------
(* Admission: what each entry point asks before it writes a row.           *)

(* With a contract the flags that it supplies are refused; --max-iterations
   goes on top of the default budget.  None when the command is refused. *)
Arguments(req) ==
    IF req.contract = None
    THEN [target |-> req.target, goal |-> req.goal, lane |-> req.lane,
          budget |-> IF req.maxIterations = None THEN DefaultBudget
                     ELSE [DefaultBudget EXCEPT !.max_iterations = req.maxIterations]]
    ELSE IF {req.target, req.goal, req.lane, req.maxIterations} = {None} THEN ParseContract(req.contract)
    ELSE None

Wiring(req, referees, writes) ==
    [refiner |-> req.refiner, judge |-> req.judge, oracle |-> "NoGroundingOracle",
     referees |-> referees, writes |-> writes, dev |-> None, heldout |-> None]

(* run_refine_loop, up to its row. *)
RefineAdmits(req, w) ==
    /\ LoopIntegrity(w) /\ WithinWorkspace(req.gen.tool, req.workspace)
    /\ MissingForRefine("claude", req.host) = {} /\ req.missingEnv = {}

Adapter(req) == ResolveJudgeAdapter(req.gen, req.override, req.registry)

(* run_cmd and _execute_run. *)
RunAdmits(req) ==
    LET args == Arguments(req)
        lane == Route(args.target, args.lane)
    IN  /\ ~(req.scheduled /\ req.confirmed)
        /\ args # None /\ args.goal # None
        /\ lane # None /\ MissingForLane(lane, req.host) = {}
        /\ req.gen.ok /\ Adapter(req) # None
        /\ RefineAdmits(req, Wiring(req, {Adapter(req)}, {req.gen.tool}))

(* demo_proof_cmd and _drive_proof_loop; the proof's tool is an adopted one. *)
ProofAdmits(req) ==
    /\ req.runnable /\ MissingForRefine(req.refiner, req.host) = {}
    /\ Adopt(req.adoption, req.workspace, req.gen.ok) = req.gen.tool
    /\ req.override # None /\ Exists(req.override)
    /\ RefineAdmits(req, Wiring(req, {}, {}))

(* run_loop; whether generation succeeds shows after the row is there. *)
LoopAdmits(req) ==
    /\ ValidTarget(req.target) /\ LoopIntegrity(Wiring(req, {}, {}))
    /\ Route(req.target, req.lane) # None
    /\ MissingForLane(Route(req.target, req.lane), req.host) = {} /\ req.missingEnv = {}

Admits(req) == CASE req.kind = "run"   -> RunAdmits(req)
                 [] req.kind = "proof" -> ProofAdmits(req)
                 [] req.kind = "loop"  -> LoopAdmits(req)

-----------------------------------------------------------------------------
(* The process that runs a loop.                                           *)

(* A learning without a grade_delta comes last. *)
Gain(i) == IF learned[i].delta = None THEN -9 ELSE learned[i].delta

(* prior_learnings: this target's, then other targets' of the lane with a gain
   of a letter or more, the best first, at most five. *)
PriorLearnings(target, lane, cross) ==
    LET of(S)  == SetToSortSeq({i \in DOMAIN learned : runs[learned[i].run] \in S},
                     LAMBDA i, j : Gain(i) > Gain(j) \/ (Gain(i) = Gain(j) /\ i > j))
        same   == of({r \in Range(runs) : r.target = target})
        others == SelectSeq(of({r \in Range(runs) : r.target # target /\ r.lane = lane}),
                            LAMBDA i : Gain(i) >= 1)
        all    == same \o (IF cross THEN others ELSE <<>>)
    IN  SubSeq(all, 1, IF Len(all) < 5 THEN Len(all) ELSE 5)

NewRun(target, lane, goal) ==
    [target |-> target, lane |-> lane, goal |-> goal, status |-> "running",
     final |-> None, finished |-> FALSE, injected |-> None]

CreateRun(row) == runs' = Append(runs, row) /\ iters' = Append(iters, <<>>)

FinishRun(r, status, final) ==
    runs' = [runs EXCEPT ![r].status = status, ![r].final = final]

(* The row of a generated tool goes by the tool's path, that of a proof or of
   run_loop by the target. *)
Label(req) == IF req.kind = "run" THEN req.gen.label ELSE req.target.name

Start(req) ==
    /\ job.pc \in {"idle", "done"} /\ Len(runs) < MaxRuns /\ Admits(req)
    /\ LET args == Arguments(req)
           lane == IF req.kind = "proof" THEN req.lane ELSE Route(args.target, args.lane)
       IN  /\ CreateRun(NewRun(Label(req), lane, args.goal))
           /\ job' = [pc |-> IF req.kind = "loop" /\ ~req.gen.ok THEN "nothing" ELSE "judge",
                      req |-> req, run |-> Len(runs) + 1, budget |-> args.budget,
                      kept |-> 0, shippable |-> FALSE]
    /\ UNCHANGED <<learned, confirms, importer, recorder, card, report>>

At(pc) == job.pc = pc /\ UNCHANGED <<importer, recorder, card, report>>
Goto(pc) == job' = [job EXCEPT !.pc = pc]

\* Mutant of NothingGenerated: a status that is not one of LoopState.
NothingGeneratedFails ==
    /\ At("nothing") /\ FinishRun(job.run, "failed", None) /\ Goto("done")
    /\ UNCHANGED <<iters, learned, confirms>>

(* The factory failed: the row is closed without a grade. *)
NothingGenerated ==
    /\ At("nothing") /\ FinishRun(job.run, "stopped", None) /\ Goto("done")
    /\ UNCHANGED <<iters, learned, confirms>>

(* The verdict on the tool as it came: the first row, and the kept one. *)
RecordBaseline(v) ==
    /\ At("judge") /\ iters' = [iters EXCEPT ![job.run] = <<v>>]
    /\ job' = [job EXCEPT !.kept = 1, !.pc = "context"]
    /\ UNCHANGED <<runs, learned, confirms>>

(* _init_run_context: the learnings to reuse are counted, the loop begins. *)
ReadContext ==
    /\ At("context") /\ Goto("loop")
    /\ runs' = [runs EXCEPT ![job.run].injected =
                    Len(PriorLearnings(runs[job.run].target, runs[job.run].lane, FALSE))]
    /\ UNCHANGED <<iters, learned, confirms>>

Kept == iters[job.run][job.kept]
Reached == Kept.safe /\ Kept.grade >= job.budget.target_grade

(* record_iteration of an attempt: it ends the run when it is unsafe, and is
   kept when it is better. *)
RecordIteration(v) ==
    LET n == Len(iters[job.run]) + 1
    IN  /\ At("loop") /\ Kept.safe /\ ~Reached /\ n <= job.budget.max_iterations
        /\ iters' = [iters EXCEPT ![job.run] = Append(@, v)]
        /\ job' = [job EXCEPT !.kept = IF v.safe THEN @ ELSE n,
                              !.pc = IF ~v.safe THEN "halt"
                                     ELSE IF v.grade > Kept.grade THEN "keep" ELSE "loop"]
        /\ UNCHANGED <<runs, learned, confirms>>

(* The refactor is kept: run_refine_loop's compounder writes a learning. *)
Compound ==
    /\ At("keep")
    /\ LET n == Len(iters[job.run])
       IN  /\ job' = [job EXCEPT !.kept = n, !.pc = "loop"]
           /\ learned' = IF job.req.kind = "loop" THEN learned
                         ELSE Append(learned, [run |-> job.run, note |-> "fix", ref |-> n,
                                               delta |-> iters[job.run][n].grade - Kept.grade])
    /\ UNCHANGED <<runs, iters, confirms>>

(* _finish: the row gets the status and the grade of the verdict it ended on. *)
Finish(status) ==
    /\ job.pc \in {"loop", "halt"} /\ job.kept # 0 /\ At(job.pc)
    /\ CASE status = "blocked_safety" -> ~Kept.safe
         [] status = "converged"      -> Reached
         [] status = "stopped"        -> Kept.safe /\ ~Reached
    /\ FinishRun(job.run, status, Kept.grade)
    /\ Goto(IF job.req.kind = "loop" THEN "gate" ELSE "stamp")
    /\ UNCHANGED <<iters, learned, confirms>>

RecordFinished ==
    /\ At("stamp") /\ Goto("gate")
    /\ runs' = [runs EXCEPT ![job.run].finished = TRUE]
    /\ UNCHANGED <<iters, learned, confirms>>

\* Mutant of ApplyGate: the CI variable is believed in a scheduled run too.
ApplyGateTrustsCI ==
    /\ At("gate")
    /\ LET q    == job.req
           done == runs[job.run].status = "converged"
       IN  /\ job' = [job EXCEPT !.pc = "done",
                         !.shippable = done /\ (q.gate /\ ~q.ci => q.confirmed)]
           /\ confirms' = IF done /\ q.gate /\ ~q.ci
                          THEN Append(confirms, [run |-> job.run, confirmed |-> q.confirmed])
                          ELSE confirms
    /\ UNCHANGED <<runs, iters, learned>>

(* _apply_gate: a converged run is shippable as the gate says, and a verdict
   that was owed is written down. *)
ApplyGate ==
    /\ At("gate")
    /\ LET q    == job.req
           done == runs[job.run].status = "converged"
       IN  /\ job' = [job EXCEPT !.pc = "done",
                         !.shippable = done /\ ConfirmConvergence(q.gate, q.scheduled, q.ci, q.confirmed)]
           /\ confirms' = IF done /\ GateRequiresConfirmation(q.gate, q.scheduled, q.ci)
                          THEN Append(confirms, [run |-> job.run, confirmed |-> q.confirmed])
                          ELSE confirms
    /\ UNCHANGED <<runs, iters, learned>>

KillJob ==
    /\ job.pc \notin {"idle", "done"} /\ At(job.pc) /\ job' = Idle /\ UNCHANGED store

-----------------------------------------------------------------------------
(* The process that publishes a run: `demo record`, and the end of a proof. *)

RecorderAt(pc) == recorder.pc = pc /\ UNCHANGED <<store, importer>>

(* The fields a proof pack of run r carries; the ones without a source are
   left out. *)
ProofFields(r) ==
    {"before_grade", "after_grade", "dim_diff", "iterations", "convergence_status"}
        \cup (IF runs[r].finished THEN {"elapsed_seconds"} ELSE {})
        \cup (IF \E k \in DOMAIN iters[r] : iters[r][k].cost # None THEN {"token_cost"} ELSE {})
        \cup (IF \E i \in DOMAIN learned : learned[i].run = r /\ learned[i].ref # None
              THEN {"regression_tests"} ELSE {})

(* ProofPack.from_run, once the loop of `demo proof` has returned. *)
BeginProof ==
    /\ RecorderAt("idle") /\ job.pc = "done" /\ job.req.kind = "proof"
    /\ recorder' = [pc |-> "row", run |-> job.run, proof |->
                      [status |-> runs[job.run].status, before |-> Head(Grades(job.run)),
                       after |-> Last(Grades(job.run)), carried |-> ProofFields(job.run)]]
    /\ job' = Idle /\ UNCHANGED <<card, report>>

BeginRecord(r) ==
    /\ RecorderAt("idle") /\ recorder' = [pc |-> "row", run |-> r, proof |-> None]
    /\ UNCHANGED <<job, card, report>>

\* Mutant of ReadRow: a run is published whatever its status.
ReadAnyRow ==
    /\ RecorderAt("row")
    /\ LET row == runs[recorder.run]
       IN  recorder' = [pc |-> "rows", run |-> recorder.run, proof |-> recorder.proof,
                        status |-> row.status, final |-> row.final]
    /\ UNCHANGED <<job, card, report>>

(* get_run; a status that the result schema does not know is refused later. *)
ReadRow ==
    /\ RecorderAt("row")
    /\ LET row == runs[recorder.run]
       IN  recorder' = IF row.status \in Terminal
                       THEN [pc |-> "rows", run |-> recorder.run, proof |-> recorder.proof,
                             status |-> row.status, final |-> row.final]
                       ELSE Idle
    /\ UNCHANGED <<job, card, report>>

FinalOrF(final) == IF final = None THEN 0 ELSE final
TrajectoryOr(r, final) == IF iters[r] = <<>> THEN <<FinalOrF(final)>> ELSE Grades(r)

(* The letters the result schema knows: no E, and nothing unknown. *)
Publishable == {GradeRank[letter] : letter \in DOMAIN GradeRank \ {"E"}}

(* The grades are read after the row; the payload is validated, then written. *)
WriteCard ==
    /\ RecorderAt("rows")
    /\ Range(TrajectoryOr(recorder.run, recorder.final)) \subseteq Publishable
    /\ card' = [run |-> recorder.run, status |-> recorder.status,
                final |-> FinalOrF(recorder.final),
                traj |-> TrajectoryOr(recorder.run, recorder.final), proof |-> recorder.proof]
    /\ recorder' = [pc |-> "report", run |-> recorder.run] /\ UNCHANGED <<job, report>>

RefuseCard ==
    /\ RecorderAt("rows") /\ recorder' = Idle /\ UNCHANGED <<job, card, report>>
    /\ ~(Range(TrajectoryOr(recorder.run, recorder.final)) \subseteq Publishable)

(* render_report reads the store anew. *)
WriteReport ==
    /\ RecorderAt("report") /\ recorder' = Idle
    /\ report' = [run |-> recorder.run, status |-> runs[recorder.run].status,
                  traj |-> Grades(recorder.run)]
    /\ UNCHANGED <<job, card>>

KillRecorder ==
    /\ recorder.pc # "idle" /\ RecorderAt(recorder.pc) /\ recorder' = Idle
    /\ UNCHANGED <<job, card, report>>

-----------------------------------------------------------------------------
(* The process that imports Corpus.                                        *)

Key(l) == <<runs[l.run].target, l.note, l.ref>>
CorpusKey(i) == <<Corpus[i].target, Sanitized[Corpus[i].note], Corpus[i].ref>>
RunKey(i) == <<Corpus[i].target, Corpus[i].lane>>

ImporterAt(pc) == importer.pc = pc /\ UNCHANGED <<job, recorder, card, report, confirms>>
ImportGoto(pc, r) == importer' = [importer EXCEPT !.pc = pc, !.run = r]

(* The keys there are, read once. *)
BeginImport ==
    /\ ImporterAt("idle") /\ UNCHANGED <<runs, iters, learned>>
    /\ importer' = [pc |-> "next", i |-> 1, run |-> 0, anchors |-> {},
                    existing |-> {Key(learned[k]) : k \in DOMAIN learned}]

Known(i) == CorpusKey(i) \in importer.existing
Anchors(i) == {r \in DOMAIN runs : /\ <<runs[r].target, runs[r].lane>> = RunKey(i)
                                   /\ runs[r].status = "imported"}
LastOf(S) == CHOOSE r \in S : \A o \in S : o <= r
Cached == {r \in importer.anchors : <<runs[r].target, runs[r].lane>> = RunKey(importer.i)}

(* A known record is skipped; the end of the file ends the process. *)
SkipRecord ==
    /\ ImporterAt("next") /\ UNCHANGED <<runs, iters, learned>>
    /\ importer' = IF importer.i > Len(Corpus) THEN Idle ELSE [importer EXCEPT !.i = @ + 1]
    /\ importer.i <= Len(Corpus) => Known(importer.i)

(* The anchor of the record's target and lane: this process's, else one that
   is there, else a new row ... *)
FindAnchor ==
    /\ ImporterAt("next") /\ importer.i <= Len(Corpus) /\ ~Known(importer.i)
    /\ IF Cached \cup Anchors(importer.i) # {}
       THEN /\ ImportGoto("learn", LastOf(IF Cached # {} THEN Cached ELSE Anchors(importer.i)))
            /\ UNCHANGED <<runs, iters>>
       ELSE /\ Len(runs) < MaxRuns /\ ImportGoto("close", Len(runs) + 1)
            /\ CreateRun(NewRun(Corpus[importer.i].target, Corpus[importer.i].lane, Anchor))
    /\ UNCHANGED learned

\* Mutant of CloseAnchor: the anchor is closed like a run without a grade.
CloseAnchorStopped ==
    /\ ImporterAt("close") /\ FinishRun(importer.run, "stopped", None)
    /\ ImportGoto("learn", importer.run) /\ UNCHANGED <<iters, learned>>

(* ... that is running until the next transaction closes it. *)
CloseAnchor ==
    /\ ImporterAt("close") /\ FinishRun(importer.run, "imported", None)
    /\ ImportGoto("learn", importer.run) /\ UNCHANGED <<iters, learned>>

\* Mutant of ImportRecord: the key that was imported is not remembered.
ImportForgetting ==
    /\ ImporterAt("learn") /\ UNCHANGED <<runs, iters>>
    /\ LET rec == Corpus[importer.i]
       IN  learned' = Append(learned, [run |-> importer.run, note |-> Sanitized[rec.note],
                                       ref |-> rec.ref, delta |-> rec.delta])
    /\ importer' = [importer EXCEPT !.pc = "next", !.i = @ + 1, !.anchors = @ \cup {importer.run}]

ImportRecord ==
    /\ ImporterAt("learn") /\ UNCHANGED <<runs, iters>>
    /\ LET rec == Corpus[importer.i]
       IN  learned' = Append(learned, [run |-> importer.run, note |-> Sanitized[rec.note],
                                       ref |-> rec.ref, delta |-> rec.delta])
    /\ importer' = [importer EXCEPT !.pc = "next", !.i = @ + 1, !.anchors = @ \cup {importer.run},
                                    !.existing = @ \cup {CorpusKey(importer.i)}]

KillImporter ==
    /\ importer.pc # "idle" /\ ImporterAt(importer.pc) /\ importer' = Idle
    /\ UNCHANGED <<runs, iters, learned>>

-----------------------------------------------------------------------------
Init ==
    /\ runs = <<>> /\ iters = <<>> /\ learned = <<>> /\ confirms = <<>>
    /\ job = Idle /\ importer = Idle /\ recorder = Idle
    /\ card = [run |-> 0] /\ report = [run |-> 0]

RunNext ==
    \/ \E req \in Requests : Start(req)
    \/ NothingGenerated \/ ReadContext
    \/ \E v \in Verdicts : RecordBaseline(v) \/ RecordIteration(v)
    \/ Compound \/ \E status \in Terminal : Finish(status)
    \/ RecordFinished \/ ApplyGate \/ KillJob

PublishNext ==
    \/ BeginProof \/ \E r \in DOMAIN runs : BeginRecord(r)
    \/ ReadRow \/ WriteCard \/ RefuseCard \/ WriteReport \/ KillRecorder

ImportNext ==
    BeginImport \/ SkipRecord \/ FindAnchor \/ CloseAnchor \/ ImportRecord \/ KillImporter

Next == RunNext \/ PublishNext \/ ImportNext
Spec == Init /\ [][Next]_vars

-----------------------------------------------------------------------------
(* The queries of memory/store.py over all runs of a target.  A list of     *)
(* (run id, ...), the oldest first, is a function of the run.               *)

RunsOf(target) == {r \in DOMAIN runs : runs[r].target = target}

IterationsToConverge(target) ==
    [r \in {s \in RunsOf(target) : runs[s].status = "converged" /\ iters[s] # <<>>} |-> Len(iters[r])]

FirstAttemptGrades(target) ==
    [r \in {s \in RunsOf(target) : iters[s] # <<>>} |-> iters[r][1].grade]

Count(target, S) == Cardinality({r \in RunsOf(target) : runs[r].status \in S})

(* A running row counts for nothing, a safety block for a failure. *)
SuccessRate(target) == <<Count(target, {"converged"}), Count(target, Terminal)>>

RecurringFailures(target, minRuns) ==
    LET failing(f) == {r \in RunsOf(target) : \E k \in DOMAIN iters[r] : f \in iters[r][k].fails}
    IN  {f \in UNION {v.fails : v \in Verdicts} : Cardinality(failing(f)) >= minRuns}

(* One entry for every run, an anchor's too. *)
ReuseStats(target) ==
    [r \in RunsOf(target) |-> <<runs[r].injected, Len(iters[r]), runs[r].status>>]

FirstOf(S) == CHOOSE r \in S : \A o \in S : r <= o

CompoundingSummary(target) ==
    LET n     == IterationsToConverge(target)
        first == n[FirstOf(DOMAIN n)]
        last  == n[LastOf(DOMAIN n)]
        trend == IF Cardinality(DOMAIN n) < 2 THEN "n/a" ELSE IF last < first THEN "improving"
                 ELSE IF last = first THEN "flat" ELSE "regressing"
    IN  <<Cardinality(DOMAIN n), n, trend, FirstAttemptGrades(target)>>

(* What the queries say of the runs a target has finished: of the reuse, the
   entries of the runs that are over.                                       *)
FinishedReuse(target) ==
    [r \in {s \in RunsOf(target) : runs[s].status \in Terminal} |-> ReuseStats(target)[r]]

Trends ==
    [t \in {runs[r].target : r \in DOMAIN runs} |->
        <<CompoundingSummary(t), SuccessRate(t), RecurringFailures(t, 2), FinishedReuse(t)>>]

-----------------------------------------------------------------------------
(* Properties.                                                             *)

Statuses == Terminal \cup {"running", "imported"}

(* Every row has a status of the schema and its iterations, learnings and
   confirmations belong to rows that are there; each process is at one of its
   steps, on such a row. *)
TypeOK ==
    /\ DOMAIN iters = DOMAIN runs
    /\ \A r \in DOMAIN runs : /\ runs[r].status \in Statuses /\ runs[r].finished \in BOOLEAN
                              /\ iters[r] \in Seq(Verdicts)
    /\ \A l \in Range(learned) : l.run \in DOMAIN runs
    /\ \A c \in Range(confirms) : c.run \in DOMAIN runs /\ c.confirmed \in BOOLEAN
    /\ job.pc \in {"idle", "nothing", "judge", "context", "loop", "keep", "halt", "stamp", "gate", "done"}
    /\ job.pc # "idle" => job.req \in Requests /\ job.run \in DOMAIN runs /\ job.kept \in 0..Len(iters[job.run])
    /\ importer.pc \in {"idle", "next", "close", "learn"}
    /\ importer.pc \in {"close", "learn"} => importer.i \in DOMAIN Corpus /\ importer.run \in DOMAIN runs
    /\ recorder.pc \in {"idle", "row", "rows", "report"}
    /\ recorder.pc # "idle" => recorder.run \in DOMAIN runs
    /\ {card.run, report.run} \subseteq {0} \cup DOMAIN runs

(* Anti-surrender (integrity.py, runner.py): a run is reported shippable only
   when its row converged on a safe verdict at the target of its budget, a human
   said so and that is on record wherever the gate asks for it, and never when
   the command that ran it was marked scheduled: confirmation then has to come
   after the run. *)
ShippableIsConfirmed ==
    job.pc = "done" /\ job.shippable =>
        /\ runs[job.run].status = "converged" /\ runs[job.run].final = Kept.grade
        /\ Kept.safe /\ Kept.grade >= job.budget.target_grade
        /\ GateRequiresConfirmation(job.req.gate, job.req.scheduled, job.req.ci) =>
              [run |-> job.run, confirmed |-> TRUE] \in Range(confirms)
        /\ ~(job.req.kind = "run" /\ job.req.scheduled /\ job.req.gate)

(* A live_verified card stays true (cli.py, _record_run): whatever the other
   processes do, its status, grade and trajectory, and the proof pack in it, are
   those the store has for the run at any later time. *)
PublishedIsSettled ==
    card.run # 0 =>
        /\ card.status = runs[card.run].status /\ card.final = FinalOrF(runs[card.run].final)
        /\ card.traj = TrajectoryOr(card.run, runs[card.run].final)
        /\ card.proof # None => /\ card.proof.status = card.status
                                /\ card.proof.before = Head(card.traj)
                                /\ card.proof.after = Last(card.traj)
                                /\ card.proof.carried = ProofFields(card.run)

(* import_learnings is idempotent: over repeated imports, killed anywhere, no
   two imported learnings are the same once sanitized. *)
ImportedOnce ==
    \A i, j \in DOMAIN learned :
        /\ i # j
        /\ runs[learned[i].run].status = "imported" /\ runs[learned[j].run].status = "imported"
        => Key(learned[i]) # Key(learned[j])

(* What an import writes moves no trend (portability.py): the success rate, the
   iterations to converge, the first grades, the recurring failures and the
   reuse of the runs that are over stay as they were for every target. *)
ImportLeavesTrends ==
    [][importer' # importer => \A t \in DOMAIN Trends : Trends'[t] = Trends[t]]_vars
=============================================================================
