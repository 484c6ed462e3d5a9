# A TLA+ model of loop-engineering-anything

The repository drives a *loop*: an external judge grades a tool, an external
refiner edits it, the judge grades it again, and the loop keeps the edit or rolls
it back until the tool is at target, unsafe, or out of budget. A *fleet* runs
many such loops in dependency order in git worktrees of their own, and hands the
ones that need judgement to a human. Everything is recorded in one SQLite store.

All paths below are relative to `src/src/loopeng/`, unless they begin with `research/`
or `scripts/`, which are relative to `src/`.

## 1. Inventory

| Component | State | Operations | Interacts with |
|---|---|---|---|
| `loop/controller.py` `LoopController.run` | kept verdict, `n`, tokens, clock, pivots, reflection, all local | judge, evaluate, pivot, refactor with retry, record, fork cards, accept / reverse / roll back, compress, finish | judge, refiner, compounder, checkpoint, resolver, compressor, store |
| `loop/convergence.py`, `grades.py` | none | `evaluate`, `is_improvement` | called by the controller |
| `loop/checkpoint.py` | commits and files of the tool | `snapshot`, `restore` | controller, compression engine |
| `loop/refactor_brief.py` | none | the brief: ranked dimensions, fixtures | controller |
| `compression.py` | none of its own | `run`: judge, snapshot, consolidate, judge, keep or restore | judge, refiner, checkpoint, store |
| `loop/fork_card.py`, `loop/resolver.py` | none | parse cards, resolve a card against a grounding oracle | controller |
| `memory/store.py` | tables runs, iterations, learnings, fork_cards, confirmations, schedules, fleet_runs, fleet_items | one locked call per read or write; `is_plateaued` and other queries | everything |
| `memory/fleet_state.py` | the status machine of an item | `assert_item_transition` | store |
| `orchestration/coordinator.py`, `routing.py` | the snapshot of a wave | `run_fleet`, `apply_item_result`, graph check, routing of outcomes | store, worktree pool, item runner |
| `orchestration/escalation.py` | none | `classify_with_escalation`, `rebrief_item` | store, worktree pool |
| `autonomous/parallel.py` | a thread pool, a lock, the worktrees | `run_parallel` | git; coordinator, heartbeat |
| `scheduler/heartbeat.py` | schedules in the store | `schedule`, `tick`, `tick_parallel` | store, worktree pool, runner |
| `autonomous/runner.py`, `config.py` | a runs row | `run_loop`, `run_refine_loop`, the human-confirm gate | controller, store, factories |
| `cli.py` | none | `run`, `demo proof`, `demo record`, `learnings import`, `fleet run`: each a process on the store | everything |
| `contracts/run_contract.py` | none | parse a contract into target, goal, lane, budget | `cli.py` |
| `loop/integrity.py` | none | the checks of the wiring, the gate's predicates | runner |
| `memory/portability.py` | learnings and anchor rows of the store | `import_learnings` | store |
| `proof.py`, `demos/result.py`, `autonomous/report.py` | a card and a report file | `ProofPack.from_run`, validation, `render_report` | store, `cli.py` |
| `adapters/compound_engineering.py`, `llm_refiner.py`, `spec_refiner.py`, `bindings.py` | what the controller reads off a refiner; the files of the tool | `refactor` of each refiner and of the chain | agents, providers, git |
| `adapters/judge.py`, `tooling_judge.py`, `spec_judge.py`, `domains/physical_ai/` | `.cli-judge/report.json` in the tool | `judge`, the variance probe, the adapter's resolution | cli-judge, simulator |
| `adapters/tooling_factory.py`, `printing_press.py`, `cli_anything.py` | files of the generated tool | `generate` | outside |
| `spec/`, `orchestration/spec.py`, `flywheel/` | none | synthesize and score a spec, parse a fleet spec, compare two legs | store rows |
| `router.py`, `preflight.py`, `adopt.py`, `connectors/`, `domains/registry.py` | an installed tool or connector | route, look for dependencies, validate, install | outside |
| `research/attention-budget/` | a cache of answers, `results.json` | `trigger_reliability.py`, the residency audit | providers |
| `scripts/audit_loop_rubric.py` | none | the audit of claims against probes | outside |
| `orchestration/fleet_report.py`, `demos/manifest.py`, `showcase/` | files | listings and pages | store |

What is hard here, and hardly reached by a unit test:

* **sequences** in the loop: baseline, rejected, reversed, accepted, compressed and
  retried attempts share one counter, one plateau window, one checkpoint token
  and one kept verdict;
* **roll-back** over a file system that has files git does not know;
* **budgets** that are looked at only between iterations;
* **two writes** for what is one result of an item, with a human and the
  coordinator acting between them;
* **one snapshot** per wave for marking and for dispatching;
* **crashes** of a worker, of the coordinator, of the whole process;
* **liveness**: a `while True` in the loop and another one in the fleet;
* **several processes** on one store: a run, an import and a publication, each killed
  anywhere, each of several transactions;
* **what is read off** a refiner after a chain of them, and off a judge that may not
  have answered this time;
* **a cache** that makes a rerun agree with the run before it.

What makes each component correct: the loop keeps only better, safe, unreversed
versions and leaves exactly the kept one on disk; its limits bound it; the fleet
runs an item once its dependencies have converged, on their outcomes, by one
worker at a time, never merges what was not confirmed, and always returns; what is
reported shippable was confirmed and what is published stays true; an import happens
once and moves no trend; a grader passes only what the next step may rely on, and is
out of reach of what it grades.

## 2. Modules

| Module | Models |
|---|---|
| `LoopController` | `LoopController.run` with its helpers, `evaluate`, `is_improvement`, `is_plateaued`, `GitCheckpoint`, the lead dimension of the brief, `CompressionEngine.run` |
| `GradedTool` | abstract: the verdict a tool stands by changes only for a better safe one, and the run ends once |
| `LoopRefinement` | the loop without compression implements `GradedTool` |
| `MCLoopController` | report sets for TLC |
| `LoopControllerProofs` | theorems about `LoopController` and `LoopRefinement`: types; bounds and the variant; what is on disk; what the kept verdicts stand for; the refinement; the policy (what is compounded, pivots and their windows, budgets, the plateau) |
| `Fleet` | `run_fleet`, `apply_item_result`, `rebrief_item`, the classifiers, routing, the item status machine, the store calls they make |
| `Workflow` | abstract: work in dependency order, one worker per item, done is done |
| `FleetRefinement` | the fleet implements `Workflow` |
| `FleetProofs` | theorems about `Fleet`: types, order and refinement; who works on what, and final outcomes; what a worker is handed; what a call leaves behind; the variant of a call, and that its writes are accepted |
| `MCFleet` | dependency graphs for TLC |
| `WorktreePool` | `run_parallel`: the pool, the lock, the worktrees on disk, for calls that overlap |
| `Heartbeat` | `tick` and `tick_parallel` over the schedule rows, composed with `WorktreePool` |
| `MCHeartbeat` | an instance for TLC |
| `HeartbeatProofs` | theorems about `Heartbeat` and its `WorktreePool`: types, worktrees, the lock, cadence, anchors, and that nobody is stuck |
| `FrontDoor` | what is asked before a row is written: routing, dependencies, the wiring's integrity, the judge's adapter, the gate, adoption, connectors, fleet specs, domains |
| `RunContract` | the run contract: what it refuses, and what it supplies |
| `RunRecords` | the store shared by a process that runs a loop, one that publishes a run and one that imports learnings; the queries over all runs of a target |
| `MCRunRecords` | requests, verdicts and a corpus for TLC |
| `RunRecordsProofs` | theorems about `RunRecords`: types; what is shippable, imported, published; that imports move no trend |
| `Referees` | the judges, readers and instruments that have no loop of their own, as operators |
| `Gradings`, `MCGradings` | one question to one of them at a time, with inputs for TLC |
| `GradingsProofs` | theorems about `Gradings`, with lemmas on each operator of `Referees` and `FrontDoor` it rests on: paths, sums, seeds, rankings, front matter, libraries |
| `RefineAttempt`, `MCRefineAttempt` | one tool between its refiners and its judge: a call of the controller with its rungs, retries, roll-backs |
| `RefineAttemptProofs` | theorems about `RefineAttempt`: what a call is charged, what it lets out |
| `Sweep`, `MCSweep` | `research/attention-budget/trigger_reliability.py` over several runs |
| `SweepProofs` | theorems about `Sweep`: tallies, and what a second run finds |
| `ListLemmas` | lemmas that the other proofs share: lists that grow, induction on numbers, functions that are defined from place to place, places in an order |

### LoopController

`pc` is where `run()` is: `start` (the first judge call), `evaluate` (the top of the
`while`), `refactor` (in `_refactor_with_retry`), `judge`, `apply` (the row is
recorded, `_apply_outcome` is next), `compress` and `compress_judge` (inside
`CompressionEngine.run`), `done`, `raised`. One action is what `run()` does from one
external call to the next; it includes every row it writes on the way.

* A judge call answers any member of `Reports`: the judge is a program that may be
  noisy, so nothing relates its answer to the tool. A report has the grade (as its
  rank), the score, safety, the failing fixtures and the dimensions in brief order.
* A refiner call rewrites any set of paths, takes any of `Durations` and costs any of
  `Costs`. A content is the number of the call that wrote it, so two trees are equal
  only if nothing was written between them. `NewPaths` do not exist in the adopted tool.
* An optional budget is the set of its value, empty for `None`.
* `reported` is the row of the verdict that the run ends on: the kept one at `Finish`, at
  `SafetyHalt` the unsafe one, whose grade `run()` returns with status unsafe while the tool
  is that of the kept one.
* `edits` and `lineage` are history: the number of writes, and every row that has been the kept one.
* `Raise` is an exception out of any collaborator, or a kill: `run()` has no handler.

### Fleet

An actor is the coordinator or a human; `pc`, `seen`, `wave`, `todo`, `result`, `half`
are the local variables of the call it is in, and `status`, `outcome`, `fleet` are rows.
A step is one call of the store, as each takes the store's lock; `half` separates
the two writes of `apply_item_result`. `RunParallel` is all of `run_parallel`: results
are looked at only after every worker has ended. `Abort` is `run_parallel` raising,
or the process dying, at any step; `run_fleet` may be called again (`MaxStarts`).
`EarlyTalk` says whether a human may re-brief while `run_fleet` is under way.

### WorktreePool and Heartbeat

`Heartbeat` extends `WorktreePool`: a tick that fires in parallel submits its due targets
as slots, the threads move them, and the tick stamps the rows once all have returned.

* A slot is a target of a call. It is `queued`, `entering` (in a thread, waiting for
  `_WORKTREE_LOCK`), `adding` (git, under the lock), `running` (the runner), `leaving`,
  `removing` (git, under the lock), `returned`. `MaxParallel` bounds the slots of a call
  that are between `queued` and `returned`.
* `disk` is what is at the path of a slug: nothing, a left-over in part, or the worktree
  of a slot. `git worktree add` succeeds only on nothing; when it fails the slot returns
  and removes nothing, as `_one` does. Removal is best effort (`git worktree remove`, `prune`,
  `rmtree`): it clears the path or leaves a part there, on which a later add of that path fails.
* A tick reads the rows once (`Begin`): the due targets and the anchors it resumes from
  are of that moment; rows may change, go and come back before it stamps them. `at` is
  its parameter `now`. A run id is the number of the tick, as ids only have to grow.
* `Raise` is `run_parallel` raising before any work, for two names that are the same once
  sanitized or because `git rev-parse` failed. `Die` ends the process: locals, threads and
  the lock go, rows and worktrees stay.
* `fired` and `disturbed` are history. The cadence and the anchors are claimed as long
  as ticks do not overlap and the process lives: overlapping ticks both fire what both
  found due, and the code has nothing against it.

### RunRecords, FrontDoor, RunContract

Three processes share `runs`, `iters`, `learned`, `confirms`, the tables of the store;
`job`, `importer`, `recorder` are their local variables; `card` and `report` are the two
files that are published. A step is one transaction or one file. Each process may be
killed between any two steps; what it left in the store stays.

* `Start` is everything up to the row: which of `run`, `demo proof` or `run_loop` it is,
  and every check it makes first (`RunAdmits`, `ProofAdmits`, `LoopAdmits`). A request
  carries what the check looks at, so that the instance has calls that are refused.
* The loop inside is that of `LoopController`, reduced to its rows: an iteration is
  recorded, keeps or ends; it may stop at any row. Which verdict a judge gives is free.
* A path is a sequence of names; `Links` says which of them lead elsewhere, and `Real`
  follows them, as `Path.resolve` does.
* The importer reads the keys once and then works record by record. An anchor is two
  transactions, `create_run` and `finish_run`, so a kill can leave one `running`.
* `Trends` are the queries of the store that compare runs; the property is about
  what they answer before and after each step of an import.

### Referees and Gradings

`Referees` has one operator for each judge or reader, over records that keep what the
code looks at: of a skill whether it has its file, loads, its name fits and what its
references are; of a document its blocks (a heading that is repeated opens another block of the same
unit), tests and references, and whether it can be opened and decoded (one that cannot be decoded is
an exception out of `judge`: `None`); of a report its shape
and its three words on safety. `Gradings` asks one of them one question at a time. What may
be concluded is an operator of the question and of its answer for each reader (`SkillIsSound`,
`AdapterIsOutside`, ...); `PassesAreSound` and `OutOfReach` claim it of the last question.

* What is selected or ranked is kept by its places: the feedback names the places of the three
  weakest dimensions, a library its entries, a draw its seeds. A walk from place to place
  (`Norm` along a path, `ParseFrontmatter` along its lines, `SumOf`) is a recursive function.
* The assumptions of `Gradings` say what an artefact, a report or a path is, as far as an
  answer rests on it: rewards and points are numbers, a flag is true, false or missing, a list
  is a list, only a field's line is a block indicator, an outcome is one of the loop's. They
  bound no size and no length, and TLC checks them of the instance.

### RefineAttempt

`dirty` is what differs from the last snapshot, `index` what git knows, `outside` what was
written elsewhere. A rung ends well or not, leaves any edits behind, and may be missing;
the chain goes on after an infra failure only. `Judge` reads the report that lies in the
tool, which `answered` tells from one that this call wrote.

### Sweep

`cache`, `paid` and `lost` outlive a run, everything else is of one run. A prompt is what the text
of a call follows from: for a menu that is its size, the seed, the target, and the place
of the target among the probes, because one generator of random numbers serves them in
turn. What is cached is the reply as it came; every run reads a pick from it again (`Scores`,
`parse_pick`), and a reply in which several tools are mentioned and none where a name is looked
for gives any of them, as a set of strings is walked in another order in every process; within a
process the order stays (`AsBefore`). `paid` counts the replies that a provider gave to a prompt,
`lost` those among them that died with the process: `KillWriting` is the death between the reply
and its file, which leaves no file or half of one. `Choke` is the run that meets the half;
`Repair` is its removal by hand, which forgets nothing of what was paid.

## 3. Runs

| Run | Instance | Shows |
|---|---|---|
| `LoopLadder` | letter ladder, 4 iterations, one retry, one pivot, reversals, a compressor after every accepted refactor | `TreeIsGraded`, `ConvergedIsEarned`, `LineageImproves`, `CompoundedIsKept`, `SafetyRollsBack`, `IterationBound` |
| `LoopScore` | score target, token and wall budgets, one retry, two pivots | `PivotsGetTheirWindow`, `PlateauMeansNoGain`, `PivotRotates`, `OverrunIsOneAttempt`, `Termination`, the refinement `KeepsPromise` |
| `LoopRetry` | violated: `RetryWithinWall` | a failed call of the refiner is retried after the wall budget is spent |
| `LoopUntracked` | violated: `TreeIsGraded` | `git reset --hard` leaves the files a rejected refactor created |
| `FleetTalk` | 3 items, 2 humans at any time, 2 calls of `run_fleet`, workers that do not crash | `WorkersOwnTheirItems`, `ConvergedIsFinal` |
| `FleetWaves` | every graph of 3 items, 1 human after the run, 2 calls, crashing workers | `UpstreamIsCurrent`, `ConvergedIsShippable`, `NothingRunnableIsLeft`, `Returns`, the refinement `ImplementsWorkflow` |
| `Scheduler` | 2 targets, 2 ticks that may overlap, one with one thread and one with two, one death or more | `WorktreeIsOwn`, `GitIsSerial`, `NothingLeftOver`, `NobodyIsStuck`, `NoHotLoop`, `AnchorIsKept` |
| `Commands` | 2 rows, 3 kinds of command, 4 calls that are refused, 4 verdicts, a corpus with one note in two spellings | `TypeOK`, `ShippableIsConfirmed`, `PublishedIsSettled`, `ImportedOnce`, `ImportLeavesTrends` |
| `Readers` | every combination of a few values of what each reader looks at | `PassesAreSound` (thirteen parts, one for each reader), `OutOfReach` |
| `Attempt` | four wirings of the refiner, 3 calls, any number of runs on one tool | `CallIsAccounted`, `NothingLeaks` |
| `JudgeStale` | violated: `SafeMeansJudged` | the report of an earlier call is taken for that of one that died |
| `Sweep` | 2 targets, 2 menu sizes, 2 runs, replies that name the target, that mention it and another tool, or say NONE, the keys of all providers or of the first generator's only | `TalliesAreAnswers`, `RerunsAgree` |

A violated run states what a docstring, comment or plan says and finds the sequence
of steps in which the code does otherwise; PROJECT.json quotes the line.

**Bounds.** `MaxIterations` 4 to 7 is enough for a baseline, an attempt of each
outcome and a pivot with its window; larger runs repeat these. `ClockBound`
saturates the clock above everything it is compared with: the wall budget, and in `LoopScore` the 4
that `OverrunIsOneAttempt` allows. Three items give every shape in which an item is two steps from another:
chains, forks, joins and cycles; two humans are enough to race on an item. In
`Scheduler` two ticks on two targets meet at every point of the pool, one after the
other they show cadence and anchor at exactly the interval (one instant for the one
target, two for the other), and the second one meets what the death of the first left.
In `Commands` two rows are a run and an anchor, or two runs of one target, or two imports
of which one was killed: each pair of processes meets at every step, and a third row only
adds bystanders. Three calls in `Attempt` are a call, its retry, and another attempt on what
they left. Two runs in `Sweep` are one that publishes or dies and one that finds its cache.

**Fairness.** `WF_vars(Step)`: the loop is one thread and every external call has a
timeout, so it always takes its next step; `Raise` is never forced. In the fleet each
actor that is under way goes on (`WF` per actor); no fairness is assumed of starting
a run, of a re-brief, nor of a crash. `CHECK_DEADLOCK FALSE` because a finished run
really stops. `Scheduler` states no liveness: `NobodyIsStuck` says that at every moment a
tick under way, or the git command it waits for, can take its next step (`MayGo` is the guards of
the steps of a tick). The modules of
the commands, the readers, the attempt and the sweep state safety only: their processes
are straight lines with nothing to wait for, and may be killed at any step.

**Left out of an instance, and why.** `FleetTalk` has no crashing workers because of what the late
record of a crash does there with two humans: it is in the list that follows. `LoopScore` has neither
reversals nor a compressor because `PlateauMeansNoGain` fails with either (same list), and `KeepsPromise`
with a compressor (`PromiseKept` below).

**Further disagreements with what is written.** Each was found with a run of the same
instances and can be had again by adding the property to the `.cfg` that is named:

* `NewIsFirstSeen`, in `LoopLadder` with `Reports <- FixtureReports`, `Dims = {}` and
  `Fixtures = {"f1", "f2"}`: fixtures that failed in the baseline, which was kept,
  are handed to the first brief as new (`loop/controller.py:145`, 220 and 312-313).
* `NothingIsLeft`, in `FleetWaves`: when the first of a chain of three escalates, the second is
  marked `blocked_on_dep`, nothing is ready in the same snapshot, and `run_fleet` returns
  with the third still pending (`orchestration/coordinator.py:216`).
* `ParkIsResumable`, in `FleetWaves`: `blocked_on_dep` is terminal (`memory/fleet_state.py:50`), so
  a fleet whose escalated item was re-briefed to convergence never runs what was blocked
  on it, though `coordinator.py:262` calls the state resumable.
* `NothingRunnableIsLeft`, in `FleetTalk`: a human re-briefs an escalated item while
  `run_fleet` is under way; the call's next snapshot has the item `running`, so nothing is
  ready and the fleet is closed (`coordinator.py:213-229`); the human then converges the item, and what
  waits for it stays `pending` though it could run. `escalation.py:62` guards the item only.
* `PlateauMeansNoGain`, in `LoopLadder` with `PlateauPivots = 0` and no compressor: the row of a refactor that a fork
  card reversed stays the best of the earlier rows (`store.py:611`), so gains kept after it count as
  none and the run stops for plateau. With the compressor,
  `Resolutions = {}`, `PlateauPatience = 2`, `PlateauPivots = 0` and `MaxIterations = 6`, a compression pass does the same: the row it
  replaces stays the best.
* `UpstreamIsCurrent`, `ConvergedIsFinal` and `ConvergedIsShippable`, with crashes in `FleetTalk`: a
  crashed re-brief sets the status before it records its outcome (`coordinator.py:89`), and the other
  human's re-brief may converge the item in between, whose outcome is then replaced.
* "A re-run is free and the numbers are reproducible rather than re-sampled"
  (`research/attention-budget/trigger_reliability.py:41-42`): `RerunsAgree` without its last disjunct,
  or with `lost` left out, in `Sweep`. A reply that died with the process before its file was
  written is paid for again (156-157). A reply that names several tools, none of them first or last, is
  scored as the first one that a set happens to give (267-269), under a comment that has the answer
  mention "exactly one valid name"; the cached reply may so be a hit in one run and wrong in the next.

**Read in the code while modelling**, and in the models as it is:

* The chain of refiners leaves the edits of a rung that failed in the tree: the diff of the
  next rung has them. The controller reads the cost of the last call only, so what a
  retried call cost is not in the budget; `git diff --shortstat` is silent on new files.
* A retry is held to no budget: of the calls of a retried attempt only the last one is counted in
  tokens, and the compressor's call is not counted at all.
* `SpecJudge` reads "fail-closed: anything unreadable returns """ (`adapters/spec_judge.py:21`) but catches
  `OSError` only (30-36): a document that is not UTF-8 raises `UnicodeDecodeError` out of `judge`.
  The rubric counts units by headings (`spec/rubric.py:77-90`), so one that is written twice counts twice.
* The variance probe says to set `min_score_gain` to what it recommends "so the loop only accepts gains
  that clear the observed jitter" (`adapters/judge.py:247-249`); in the letter ladder `is_improvement` takes any
  better letter whatever that gain is (`loop/convergence.py:111-113`), so a judge whose letter is not
  stable can improve on itself. `VarianceIsCovered` claims the letter ladder of stable grades only.
* An answer without `choices`, and a directory that cannot be made, are not caught in
  `llm_refiner.py` and end the run.
* `ProofPack`'s grade after the run is that of the last row, be it one that was rolled back.
* A proof with the LLM refiner is preflighted for it, and again for `claude` by
  `run_refine_loop`.
* The two files of a publication come one after the other: a kill between the card and the report leaves
  a card without one. Two importers at once may import a note twice: each reads the keys
  at its start; the instance, as the theorem, has one.
* `portability.py:17-19` says reuse statistics are unaffected by an import: the anchors have
  status `imported` and the queries over runs that are over leave them out, but the join of
  `store.py:735-749` lists a row for them.
* A torn cache file stops every later run of the experiment until it is removed; the
  fallback generator is not noted when its answer comes from the cache; a missing key
  is an error before the cache is looked at; a probe that fails shifts the menus after it.
* A safety check of a simulation with no cost channels passes; the skill judge caps the
  grade of an unsafe skill and not its score; the first requirement that is defined can
  lower a spec's score;
  an audit item whose `expect` is neither absent nor `absent` is in no gate.

## 4. Proofs

For every value of the constants, under the assumptions that the modules name and, where
given, the one in the theorem. Every argument is an inductive invariant, with one lemma
that says a step keeps it and, in that, one case per action.

The loop (`TypeOK` on its own is not inductive: that the kept verdict is a report needs
that the kept row exists, which needs that `n` counts the rows; this is `RowsOK`):

* `TypeCorrect` and `Bookkeeping`: `TypeOK`, and that strengthening itself.
* `IterationsBounded`: `IterationBound`, at most `MaxIterations` rows, and one more with a compressor.
  `Progress` adds that an attempt under way was allowed below the cap, `ExcessOK` that the row in
  excess is that of a compression.
* `DiskTheorem`: `TreeIsGraded`, with or without a compressor. `DiskOK` adds what the
  snapshot is at each point: the kept tree during an attempt, the tree that was judged
  first during a compression, and always whole, as only a whole snapshot is restored
  exactly. It assumes `NewPaths = {}`: `LoopUntracked` is the failure without that.
* `LineageTheorem`: `LineageImproves`. `LineageOK` adds that the lineage ends in the kept
  row, that fork cards are of recorded rows only (so no row is reversed before it is
  recorded), and that a compression row is not a refactor.
* `EarnedTheorem`: `ConvergedIsEarned`, from `EndOK` (converged only on a safe verdict
  at target, which is the one reported), `DiskOK` and `LineageOK`; so it assumes `NewPaths = {}` too.
* `PromiseKept`: the loop without a compressor implements `GradedTool`. `PromiseStep`
  maps `JudgeBaseline` to `Baseline`, `Accept` to `Improve`, `Finish` to `Ship` or `GiveUp`,
  `SafetyHalt` to `GiveUp`, every other step to a stutter. With a compressor it is false: its
  row replaces the kept verdict whatever its grade.
* `VariantTheorem`: every step of `run()` lowers `StepsLeft`, a natural number: the rows that may still be
  recorded, each with the steps an iteration has at most, and what is left of this one (`Stage`: a
  retry less, a compression done). From `Progress`, which bounds the rows; so no judge, refiner or
  compressor can keep the loop going, and `Termination` is left with a loop that is never run on.
* `SafetyTheorem`: `SafetyRollsBack`, with any compressor: after a halt the files are those of the
  kept verdict, which is safe, while the reported verdict is the unsafe one. `SafeOK`: an attempt starts
  only from a safe verdict, and a run ends unsafe on the verdict it reports; `DiskOK` gives the
  files, so it assumes `NewPaths = {}`.
* `CompoundTheorem`: `CompoundedIsKept`. `CompoundOK` relates the two row by row, as the
  property does, and adds that nothing beyond row `n` is compounded; `LineageOK` gives that a row
  enters the lineage once, when it is accepted.
* `WindowTheorem`: `PivotsGetTheirWindow`. `WindowOK` counts the rows: `pivotsUsed` pivots lie
  behind `pivotOffset`, each with `PlateauPatience + 1` rows of its own. `PlateauIsLate` is the
  arithmetic of `is_plateaued`: it is not true before a whole window beyond the last pivot.
* `RotateTheorem`: `PivotRotates`, from `TypeOK` alone; `LeadIsFresh` is about `LeadDimension`.
* `OverrunTheorem`: `OverrunIsOneAttempt`, for any number of retries, where the calls have a longest duration
  and a highest cost and nothing is compressed (a compressor's call has its own time). `WallsOK` says how
  far each place of an attempt may be beyond the wall budget: so many calls as it has behind it
  in this attempt. `AllTokensOK`: only the row that uses the budget up can go beyond it.
* `PlateauTheorem`: `PlateauMeansNoGain` where nothing is reversed and nothing compressed. `GainOK`
  says that no row that has been judged is better than the kept one by more than the noise band,
  and that this was so of every row kept when it was replaced; so the best of the rows before a
  window, which the code compares with, is the verdict the next gain replaced. Each of the two
  assumptions is needed: section 3 has the runs that break the property without it.

The fleet, for any items, graphs, humans and number of calls:

* `FleetTypeCorrect`, `OrderKept`, `Refines`: `FleetInv` is `TypeOK`, `GraphOK` (whoever works
  passed the graph check), `ResultsOK` (there is a result for what is still to be applied),
  `OrderOK` (an item that was begun has its dependencies converged), `LaunchOK` (so has one
  about to be) and `SnapshotOK` (what the coordinator saw converged still is, which
  is why a wave may be chosen from rows that humans have changed since). `Refines` shows that
  each write of a status is a `Begin`, `Succeed` or `Fail` of `Workflow` or a stutter.
* `OwnersTheorem`: `WorkersOwnTheirItems`. `OwnersOK` claims it of `Held`, which differs from
  `Holds` between the two writes of a result; `HalfOK` says there is a result to complete then.
* `FinalTheorem`: `ConvergedIsFinal`, with crashing workers. The status of a crashed item is written before
  its outcome. `LateOK` says that between the two nobody takes the item up: the crash of a wave is
  recorded at items that nobody may re-brief (`QueueOK`, with `TalkOK` and `TowardOK` of the variant
  below), and that of a re-brief is recorded by the only human there is. All three theorems on outcomes
  assume `NoLateRecord`: no worker crashes, or one human re-briefs. With both, a late record
  replaces the outcome of an item that has converged (section 3).
* `ShippableTheorem`: `ConvergedIsShippable` with the escalating classifier; `OutcomeOK` says that a half
  recorded outcome that is not of a crash is the one the status will stand for, `FleetOK` that the
  fleet's verdict is that of its rows.
* `UpstreamTheorem`: `UpstreamIsCurrent`. `UpInv` adds that what the coordinator saw converged
  still has the outcome it saw (`SeenOK`), that the wave was chosen from that (`ChosenOK`),
  that a wave's dependencies stay converged (`WaveOK`), and the property (`HandedOK`).
* `QuietTheorem`: `NothingRunnableIsLeft`, with crashing workers. `RunningOK`: a row that says running
  is answered for by somebody under way, unless someone died or was refused. `HumansOK`: until the
  fleet was first closed no human is at work, so `MarkedOK` can say that in the first call the rows
  are those of the snapshot but for what was marked since. When that snapshot has nothing ready,
  each pending item waits for one that is pending or was blocked (`Stuck`): one with a running or
  a converged dependency only would be ready or would have to wait, one with a failed one is marked.
  `StuckStep` shows that this stays, whatever humans and later calls do: what is blocked never
  converges. It assumes `~EarlyTalk`: section 3 has what an early re-brief does.
* `ReturnsVariant`: every step of a call of `run_fleet` or of a re-brief lowers `StepsToReturn`, which is
  at most `(N + 1)(4N + 4) + 2` for `N` items, and no step of another raises it. It counts the
  pending items that are not yet in the loop of a launch (`Ahead`), each with the length of a whole wave,
  and the stage of the wave. No row becomes pending again, and a wave that is dispatched takes at
  least one away: `TowardOK` says that what was ready in the snapshot is still pending, which
  needs that no human holds a pending item (`TalkOK`). A death ends the call, so it lowers it as well.
* `WritesTheorem`: at the marking and at the record of a result the status the row has allows the one that
  is set, with early re-briefs and deaths too. The guard of `set_item_status` thus refuses a launch
  only, which is the one place where the model has to say what an actor does when it is refused.

The commands, for any requests, verdicts, corpus and number of rows, with kills anywhere:

* `ShippableTheorem`: `ShippableIsConfirmed`. `Inv` follows a run from its admission to the
  gate: `JobOK` (the request was admitted, and nothing is claimed before the end), `Settled`
  (a row that was closed as converged ended on the kept verdict, safe and at target),
  `Confirmed` (what passed the gate), and `Apart`: the importer closes rows of its own only,
  without which its `finish_run` could undo `Settled`.
* `ImportedOnceTheorem`: `ImportedOnce`. `Books` adds where a row is in its life (`Rows`), that no
  learning is of an anchor that is still open (`Learned`), and that the importer remembers
  every key that is in the store (`Remembers`), also when another process is writing. That the
  anchor it finds is one of those it looked through is `Greatest`: a set of numbers up to `n`
  has a greatest one, from the library's theorem on well-founded inclusion.
* `PublishedTheorem`: `PublishedIsSettled`. `OverStays` shows that no step of any process changes
  a row that is over, but for the last steps of its own run; `ProofStays` that nothing a proof
  pack is made of changes once the run was left; `Reads` and `Wrote` carry this from the
  recorder's first read to the card.
* `TrendsTheorem`: `ImportLeavesTrends`. `ImportAddsAnchors`: what a step of an import changes of
  the rows is new or open, and without iterations, by `Books`. `AnchorsAreNotCounted`: such a row is in
  none of the selections the queries answer from, whatever else is in the store.
* `RecordsTypeCorrect`: `TypeOK`, the statuses of the schema and the references between the
  tables. `Typed` adds, on top of `Inv` and `Books`, that a kept verdict is a row on record and where
  each process can be (`KeptOK`, `PlaceOK`, `RecorderOK`); `RowsChanged` sums up how rows change at all.

The scheduler and its pool, for any targets, names, intervals, number of calls, threads and ticks:

* `TypeCorrect`: `TypeOK`. `Typed` adds that what may be stamped is a number of a tick and a time
  that has been; `CallsOK`, that a thread works only for a call that waits for it.
* `OwnTheorem`, `SerialTheorem`, `RemovedTheorem`: `WorktreeIsOwn`, `GitIsSerial`, `NothingLeftOver`,
  for calls that overlap and processes that die. `PoolOK` is their conjunction with: who runs git
  is the one that has the lock. `git worktree add` succeeds only on a free path, which is what keeps
  two slots of one path apart, and the lock is only what keeps their commands apart.
* `HotLoopTheorem`, `AnchorTheorem`: `NoHotLoop`, `AnchorIsKept`. `AloneOK` says there is one tick, with
  the last number given and no earlier than any row; `FiredOK` that a call of the runner is in the
  row of its target or is still to be stamped by the tick that made it (`Dealt`), and that a
  target due and not yet dealt with was last fired an interval ago; `AnchorOK` that the anchor a
  tick has read is still the row's. The stamp then neither brings the time nor the anchor back.
* `StuckTheorem`: `NobodyIsStuck`. `WaitsOK`: the lock is nobody's or that of a slot whose git command is
  under way, and what a waiting tick waits for was submitted. A slot at work then moves, or another
  has the lock (`WorkerMoves`); with none at work the first in line finds a free thread
  (`FirstInLineMoves`, which takes the least of a set of targets and that a pool has a thread).

The refiners, for any chain of rungs and any usages they report:

* `AccountTheorem`: `CallIsAccounted`. `CostOK` equates the chain's running sum, in which `None` is
  no cost, with the number of tokens that its rungs have named; `ChainOK` says that every rung but the
  last ended on an infra failure. Tokens are a set of pairs (rung, count), so the sum is a
  cardinality and one rung more needs no induction (`TokensAppend`).
* `LeakTheorem`: `NothingLeaks` holds by itself from step to step, through every kind of rung.

The experiment, for any targets, menu sizes, seeds, number of runs and kills anywhere:

* `TallyTheorem`: `TalliesAreAnswers`. `CountOK` says that each counter is the tally of the trials
  behind it and that each outcome can be read from the reply on disk; `Blocks` cuts the trials at
  the menu sizes, which gives the denominators. `TallyAppend` and `TallySplit` are on `Tally`.
* `RerunTheorem`: `RerunsAgree`. `CacheOK` balances the ledgers: of each prompt as many replies were paid
  for as were lost, and one more if there is a whole file, which removing a torn one by hand
  leaves as it is. What a run or a published one has counted was read from the reply that is on
  disk, and `ReadingsDiffer` says of which replies two readings may differ.

The readers, for any artefacts, reports, paths, links, hosts and environments:

* `PassesTheorem`: `PassesAreSound`, and `ReachTheorem`: `OutOfReach`. Each question starts afresh, so the
  invariant is the property itself and the work is one lemma per reader (`SkillAnswer`, ...,
  `LibraryAnswer`, `AdapterAnswer`) on what its operator answers.
* Walks of any length are by `SetInduction` (a set of numbers that has zero, and with each number
  the next, has all: from the library's theorem that the numbers are well founded).
  `RecursionExists` builds the function a rule defines from place to place and `RecursionType` says
  where it stays; so `NormTwice` (a normal path is its own), `SumStaysBelow` (rewards below the last band
  do not reach it together) and `FieldsParsed` (a description is made of the texts of its lines).
* Selections are by counting. `FirstOfOrder`: the elements with fewer than `m` before them are `m`,
  which gives that as many seeds are drawn as were asked (`SeedsAnswer`) and that a dimension is
  left out of the feedback only for three that lost no smaller a share (`WeakestAnswer`, with
  `SharesCompare`: comparing shares by products is transitive). `Namesakes`: the places of
  a library less the first ones of each name are no fewer than the names that are shared.
* `SpecAnswer` goes through the parts of the score: without nine twentieths of the blocks tested
  `RoundedFive` leaves too little for the first band. `VarianceAnswer` has both ladders of
  `is_improvement`: the proposed gain covers every pair of scores, and letters that are stable are alike.

**Only model-checked.** `Termination` and `Returns` are liveness under fairness, which the prover
does not handle. What they rest on besides fairness is proved: `VariantTheorem` for the first;
`ReturnsVariant` for the second, with `WritesTheorem` for that an actor under way has a step it can take
once its workers have ended in some way (`Results` not empty). The three properties that are expected to
fail are not true. That `NobodyIsStuck` and `WritesAreLegal` are about the guards and not about `ENABLED` is
so that they can be proved.

## 5. Not modelled, and what is left

Not modelled: `orchestration/fleet_report.py`, `demos/manifest.py`, `showcase/` and the listings of
`cli.py`, which word what is in the store and decide nothing; the command lines and prompts of
the two external factories; the repository's one-off scripts; the store's migration and
connection. External programs (agents, providers, cli-judge, git, the simulator, the audit's
probes) are inputs. Texts are what a decision looks at: a note is what sanitizing makes of it,
a document is its units and references, a prompt is what it says of the last attempt.

Left for later, in this order:

1. A partial `git worktree add` left on disk, as a run of its own, and items left
   `running` by a wave that raised.
2. The roll-back with git commands that fail.
3. Two importers, and two processes on the rows of a fleet.
4. Proofs: what remains of `ConvergedIsFinal`, `ConvergedIsShippable` and `UpstreamIsCurrent` when
   workers crash and several humans re-brief; a weaker form of `NothingRunnableIsLeft` for early re-briefs;
   what `PlateauMeansNoGain` becomes where rows are reversed.
