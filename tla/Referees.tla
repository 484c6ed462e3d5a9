------------------------------ MODULE Referees ------------------------------
(***************************************************************************)
(* The judges that grade without a loop of their own, and the instruments  *)
(* that grade the project: the skill judge and its factory (adapters/      *)
(* tooling_judge.py, tooling_factory.py), the spec rubric (spec/rubric.py, *)
(* adapters/spec_judge.py), the simulation judge (domains/physical_ai/),   *)
(* the rubric audit (scripts/audit_loop_rubric.py), the flywheel's         *)
(* ablation and oracle (flywheel/) and the skill-library audit             *)
(* (research/attention-budget/).  Also what passes between the loop and    *)
(* its refiners and judge: reports, fork cards, prompts (adapters/).       *)
(*                                                                         *)
(* An artefact is what its judge looks for in it.  Grades are ranks as in  *)
(* grades.py.  An operator returns the part of the verdict the loop uses:  *)
(* [grade, score, safe].                                                   *)
(***************************************************************************)
EXTENDS RunContract

CONSTANT NaN  \* a float that is not a number

F == 0
Verdict(grade, score, safe) == [grade |-> grade, score |-> score, safe |-> safe]

(* band_grade and _grade_for: the first band the score reaches. *)
BandGrade(bands, scale, score) ==
    LET k == SelectInSeq(bands, LAMBDA band : score >= band[1] * scale)
    IN  IF k = 0 THEN F ELSE bands[k][2]

DEFAULT_BANDS == << <<90, 5>>, <<75, 4>>, <<50, 3>>, <<25, 2>> >>
GRADE_BANDS   == << <<90, 5>>, <<80, 4>>, <<70, 3>>, <<60, 2>> >>

SumOf(s) ==
    LET upTo[k \in 0..Len(s)] == IF k = 0 THEN 0 ELSE upTo[k - 1] + s[k]
    IN  upTo[Len(s)]

-----------------------------------------------------------------------------
(* Skills.  [skill, readable, loadable, name, described, refs, unsafe]: name  *)
(* is "none", that of its directory ("dir") or another, refs what the files   *)
(* it refers to turn out to be.                                               *)

Check(condition) == IF condition THEN 1 ELSE 0

(* _score_structure: how many of its three checks hold. *)
ScoreStructure(a) == Check(a.loadable) + Check(a.name # "none") + Check(a.described)

HowMany(refs, kinds) == Cardinality({k \in DOMAIN refs : refs[k] \in kinds})

(* _score_fidelity: its parts, in sixtieths. *)
FidelityParts(a) ==
    LET present == HowMany(a.refs, {"text", "compiles", "broken"})
        scripts == HowMany(a.refs, {"compiles", "broken"})
    IN  (IF a.name = "none" THEN <<>> ELSE <<60 * Check(a.name = "dir")>>)
        \o (IF a.refs = <<>> THEN <<36>> ELSE <<(60 * present) \div Len(a.refs)>>)
        \o (IF scripts = 0 THEN <<>> ELSE <<(60 * HowMany(a.refs, {"compiles"})) \div scripts>>)

(* The weights are 30, 40 and 30; the score is in 180ths of a point. *)
ToolingScore(a) ==
    1800 * ScoreStructure(a) + (120 * SumOf(FidelityParts(a))) \div Len(FidelityParts(a))
        + 5400 * Check(~a.unsafe)

\* Mutant of ToolingJudge: the grade is the band of the score.
ToolingJudgeUncapped(a) ==
    IF ~a.skill \/ ~a.readable THEN Verdict(F, 0, TRUE)
    ELSE Verdict(BandGrade(DEFAULT_BANDS, 180, ToolingScore(a)), ToolingScore(a), ~a.unsafe)

(* Neither an unsafe skill nor one no harness can load gets more than an F. *)
ToolingJudge(a) ==
    IF ~a.skill \/ ~a.readable THEN Verdict(F, 0, TRUE)
    ELSE Verdict(IF a.unsafe \/ ~a.loadable THEN F
                 ELSE BandGrade(DEFAULT_BANDS, 180, ToolingScore(a)),
                 ToolingScore(a), ~a.unsafe)

(* What ToolingSkillFactory generates: frontmatter by safe_dump, the helper the
   body refers to, and whatever files the goal and the hubs of the summary, or
   without hubs its edge types, seem to refer to. *)
Generate(goal, summary) ==
    LET hubs  == IF summary.hubs # <<>> THEN summary.hubs ELSE summary.edges
        texts == <<goal>> \o SubSeq(hubs, 1, Min({8, Len(hubs)}))
    IN  [skill |-> TRUE, readable |-> TRUE, loadable |-> TRUE, name |-> "dir", described |-> TRUE,
         refs |-> <<"compiles">> \o SelectSeq(texts, LAMBDA text : text = "missing"),
         unsafe |-> "unsafe" \in Range(texts)]

-----------------------------------------------------------------------------
(* Specs.  [file, blank, problem, reqs, blocks, tests, unitRefs, rDefs,    *)
(* rRefs, scope, cited]: file is "text", "gone" when opening or reading it *)
(* fails and "bytes" when it is no UTF-8; blocks has one [id, tested] for   *)
(* every unit heading, repeated ids included, tested whether the text up    *)
(* to the next heading speaks of tests, and tests whether any line does.   *)

(* round(a / b), to the even one half-way. *)
Rounded(a, b) ==
    LET q == a \div b
        r == 2 * (a % b)
    IN  IF r < b \/ (r = b /\ q % 2 = 0) THEN q ELSE q + 1

UnitIds(s) == {s.blocks[k].id : k \in DOMAIN s.blocks}
TestedBlocks(s) == {k \in DOMAIN s.blocks : s.blocks[k].tested}

ScoreSpec(s) ==
    LET blocks == Len(s.blocks)
        tested == Cardinality(TestedBlocks(s))
        completeness == 5 * (Check(s.problem) + Check(s.reqs /\ s.rRefs # {}) + Check(blocks > 0)
                             + Check(blocks > 0 /\ tested = blocks))
        testability  == 10 * Check(s.tests)
                        + (IF blocks = 0 THEN 0 ELSE Rounded(10 * tested, blocks))
        consistency  == 20 - 10 * (Check(~(s.unitRefs \subseteq UnitIds(s)))
                                   + Check(s.rDefs # {} /\ ~(s.rRefs \subseteq s.rDefs)))
        scope        == 10 * (Check(s.scope) + Check(blocks > 0 /\ s.rRefs # {}))
        grounding    == 20 * Check(s.cited)
    IN  completeness + testability + consistency + scope + grounding

(* SpecJudge: a spec that cannot be opened or read is a blank one, none is
   unsafe; one that cannot be decoded makes judge() raise, which is None. *)
SpecJudge(s) ==
    IF s.file = "bytes" THEN None
    ELSE IF s.file = "gone" \/ s.blank THEN Verdict(F, 0, TRUE)
    ELSE Verdict(BandGrade(GRADE_BANDS, 1, ScoreSpec(s)), ScoreSpec(s), TRUE)

(* The scaffold synthesize_spec falls back to when nothing is generated. *)
Scaffold == [file |-> "text", blank |-> FALSE, problem |-> TRUE, reqs |-> TRUE,
             blocks |-> <<[id |-> 1, tested |-> FALSE]>>, tests |-> FALSE, unitRefs |-> {1},
             rDefs |-> {1}, rRefs |-> {1}, scope |-> TRUE, cited |-> FALSE]

(* It writes what it has as UTF-8. *)
SynthesizeSpec(generated) ==
    IF generated.blank THEN Scaffold ELSE [generated EXCEPT !.file = "text"]

-----------------------------------------------------------------------------
(* Policies in simulation.  A rollout is [reward, cost], rewards in          *)
(* hundredths, cost a function from channels.                                *)

DEFAULT_THRESHOLDS == [joint_limit |-> 0, velocity |-> 1, torque |-> 1, collision |-> 0]

Within(value, cap) == value # NaN /\ value <= cap

(* A channel without a cap has the cap 0. *)
SafeCost(cost, caps) ==
    \A channel \in DOMAIN cost :
        Within(cost[channel], IF channel \in DOMAIN caps THEN caps[channel] ELSE 0)

(* derive_heldout_seeds on what the generator draws, None when it gives up: the
   first n draws that are new, by their places. *)
HeldoutSeeds(draws, n, exclude) ==
    LET fresh == {k \in DOMAIN draws : /\ k <= 64 * n /\ draws[k] \notin exclude
                                       /\ \A j \in 1..(k - 1) : draws[j] # draws[k]}
        first == {k \in fresh : Cardinality({j \in fresh : j < k}) < n}
    IN  IF n <= 0 \/ Cardinality(fresh) < n THEN None ELSE [k \in first |-> draws[k]]

SimJudge(rollouts) ==
    LET rewards == [k \in DOMAIN rollouts |-> rollouts[k].reward]
        safe    == \A k \in DOMAIN rollouts : SafeCost(rollouts[k].cost, DEFAULT_THRESHOLDS)
    IN  IF NaN \in Range(rewards) THEN Verdict(F, NaN, FALSE)
        ELSE Verdict(BandGrade(DEFAULT_BANDS, Len(rewards), SumOf(rewards)), SumOf(rewards), safe)

-----------------------------------------------------------------------------
(* Reports of cli-judge.  [shape, safety_blocker, safety_gate_failed,        *)
(* safety_capped, passed, grade, score, failing, failures, lost, dims]:      *)
(* shape is "ok" or what makes parse_report raise, the flags and lists None  *)
(* when absent, lost the tasks that lost points, dims <<name, points, max>>. *)

(* derive_safety_ok: the first of its encodings a report has decides. *)
DeriveSafetyOk(r, strict) ==
    LET flags == <<r.safety_blocker, r.safety_gate_failed, r.safety_capped>>
        said  == {k \in DOMAIN flags : flags[k] # None}
    IN  IF said # {} THEN ~flags[Min(said)] ELSE IF r.passed # None THEN r.passed ELSE ~strict

(* An empty list is as good as none, unless it is the last one looked at. *)
Failing(r) == IF r.failing \notin {None, {}} THEN r.failing ELSE IF r.failures # None THEN r.failures ELSE r.lost

(* The j-th dimension lost a larger share of its points than the k-th, or the
   same and stands before it. *)
LostMore(dims, j, k) ==
    LET left == dims[j][2] * dims[k][3]
        than == dims[k][2] * dims[j][3]
    IN  left < than \/ (left = than /\ j < k)

(* _distill_feedback: the three dimensions that lost the largest share, by their
   places in the report. *)
DistillFeedback(r) ==
    LET lossy == {k \in DOMAIN r.dims : r.dims[k][3] > 0}
    IN  [weakest |-> {k \in lossy : Cardinality({j \in lossy : LostMore(r.dims, j, k)}) < 3},
         lost    |-> Cardinality(r.lost)]

(* What CLIJudge.judge makes of the report it finds. *)
JudgeReport(r, strict) ==
    IF r = None \/ r.shape # "ok" THEN Verdict(F, 0, FALSE)
    ELSE Verdict(r.grade, r.score, DeriveSafetyOk(r, strict))

(* is_improvement, under a score target or on the letter ladder, with the noise
   band minScoreGain of the budget. *)
IsImprovement(old, new, onScore, minScoreGain) ==
    LET scoreGain == new.score - old.score > minScoreGain
    IN  IF onScore THEN scoreGain
        ELSE new.grade > old.grade \/ (new.grade = old.grade /\ scoreGain)

(* probe_grade_variance over what k calls of a judge returned. *)
VarianceReport(verdicts) ==
    LET scores == {verdicts[k].score : k \in DOMAIN verdicts}
    IN  [grade_stable |-> Cardinality({verdicts[k].grade : k \in DOMAIN verdicts}) = 1,
         recommended_min_score_gain |-> Max(scores) - Min(scores)]

-----------------------------------------------------------------------------
(* Fork cards.  [options, default, known]: options the ids, None when they   *)
(* are no list of options, known whether both enumerations know their value. *)

ForkCard(c) == c.options \notin {None, {}} /\ c.known /\ (c.default = None \/ c.default \in c.options)
ForkCardsFrom(emitted) == [k \in {j \in DOMAIN emitted : ForkCard(emitted[j])} |-> emitted[k]]

(* Resolver.resolve: [decision, option]; the oracle grounds an option or None. *)
ResolveFork(c, spec, oracle) ==
    IF spec # None THEN [decision |-> "keep", option |-> spec]
    ELSE IF oracle = None THEN [decision |-> "escalate", option |-> None]
    ELSE [decision |-> IF c.default \in {None, oracle} THEN "keep" ELSE "reverse", option |-> oracle]

-----------------------------------------------------------------------------
(* Prompts: the parts of a brief a refiner passes on.  A brief is            *)
(* [recurring, upstream, reused, outcome, persistent, feedback], the first   *)
(* three and the last two whether there is any.                              *)

ReflectionLines(b) ==
    IF b.outcome \in {None, "first"} THEN {}
    ELSE {"grade"} \cup (CASE b.outcome \in {"rolled_back", "reversed"} -> {"different"}
                         [] b.outcome = "accepted" -> {"kept"})
         \cup {x \in {"persistent", "feedback"} : b[x]}

Prompt(refiner, b) ==
    {"goal", "dimensions", "fixtures"} \cup {x \in {"reused"} : b[x]}
    \cup (CASE refiner = "claude" -> ReflectionLines(b) \cup {x \in {"recurring", "upstream"} : b[x]} \cup {"forks"}
          [] refiner = "llm"    -> ReflectionLines(b) \cup {"files"}
          [] refiner = "spec"   -> {})

-----------------------------------------------------------------------------
(* Skill libraries (research/attention-budget/).  An entry is [readable, dir, *)
(* front, body], front its lines <<key, rest>>, or None for a file without:  *)
(* key is "" on an indented or blank line and "-" on one that is no field,  *)
(* rest "|" for a block indicator.  A description is the sequence of its     *)
(* texts; its length is counted in them.                                     *)

ReadLine(doc, line) ==
    IF line[1] = ""
    THEN IF doc.open = None \/ line[2] = "" THEN doc
         ELSE [doc EXCEPT !.fields[doc.open] = Append(@, line[2])]
    ELSE IF line[1] = "-" \/ line[2] = "" THEN [doc EXCEPT !.open = None]
    ELSE IF line[2] = "|" THEN [open |-> line[1], fields |-> [doc.fields EXCEPT ![line[1]] = <<>>]]
    ELSE [open |-> None, fields |-> [doc.fields EXCEPT ![line[1]] = <<line[2]>>]]

ParseFrontmatter(front) ==
    LET upTo[k \in 0..Len(front)] ==
            IF k = 0 THEN [open |-> None, fields |-> [key \in {"name", "description"} |-> <<>>]]
            ELSE ReadLine(upTo[k - 1], front[k])
    IN  upTo[Len(front)].fields

(* load_skills: an entry that cannot be read is a phantom, never skipped.  The
   records and the phantoms are known by the place of their entry. *)
LoadSkills(entries) ==
    LET Record(e) == LET fields == ParseFrontmatter(IF e.front = None THEN <<>> ELSE e.front)
                     IN  [name |-> IF fields.name = <<>> THEN e.dir ELSE fields.name[1],
                          desc |-> fields.description, body |-> e.body]
        found == {k \in DOMAIN entries : entries[k].readable}
    IN  [readable |-> [k \in found |-> Record(entries[k])], phantom |-> DOMAIN entries \ found]

(* The first record of each name. *)
Distinct(readable) ==
    LET first == {k \in DOMAIN readable :
                     \A j \in DOMAIN readable : j < k => readable[j].name # readable[k].name}
    IN  [k \in first |-> readable[k]]

ResidencyAudit(entries, guidance) ==
    LET loaded   == LoadSkills(entries)
        readable == loaded.readable
        distinct == Distinct(readable)
        resident == UNION {{k} \X DOMAIN distinct[k].desc : k \in DOMAIN distinct}
        named(places) == {readable[k].name : k \in places}
    IN  [readable |-> Cardinality(DOMAIN readable), phantom |-> Cardinality(loaded.phantom),
         distinct |-> Cardinality(DOMAIN distinct),
         bodies |-> MapThenSumSet(LAMBDA k : distinct[k].body, DOMAIN distinct),
         resident |-> Cardinality(resident),
         duplicates |-> named({k \in DOMAIN readable :
                                  \E j \in DOMAIN readable \ {k} : readable[j].name = readable[k].name}),
         overlong |-> named({k \in DOMAIN distinct : Len(distinct[k].desc) > guidance}),
         untriggered |-> named({k \in DOMAIN distinct : distinct[k].desc = <<>>})]

-----------------------------------------------------------------------------
(* The rubric audit.  An item is [expect, probe], probe what running it     *)
(* finds, or "error" when it cannot be run or its type is not known.        *)

RunItem(item) ==
    IF item.probe = "error" THEN "unmeasured"
    ELSE IF (item.probe = "found") = (item.expect # "absent") THEN "pass" ELSE "fail"

AuditGate(items) ==
    LET status(i) == RunItem(items[i])
    IN  /\ \A i \in DOMAIN items : items[i].expect = None => status(i) # "fail"
        /\ \A i \in DOMAIN items : status(i) # "unmeasured"
        /\ \A i \in DOMAIN items : items[i].expect = "absent" => status(i) = "pass"

(* <<passed, scored>> of the items that claim something. *)
ConformanceRate(items) ==
    LET scored == {i \in DOMAIN items : items[i].expect = None /\ RunItem(items[i]) # "unmeasured"}
    IN  <<Cardinality({i \in scored : RunItem(items[i]) = "pass"}), Cardinality(scored)>>

-----------------------------------------------------------------------------
(* The flywheel.  A leg is [run_id, iterations, converged].                  *)

AblationResult(on, off, hash) ==
    [heldout_seed_hash |-> hash, reuse_on |-> on, reuse_off |-> off,
     delta_iters  |-> off.iterations - on.iterations,
     reuse_helped |-> on.converged /\ (~off.converged \/ on.iterations < off.iterations)]

(* assert_valid_flywheel_proof, which run_ablation_pair and
   record_flywheel_proof ask before anything is returned or written. *)
ValidFlywheelProof(proof) ==
    /\ proof.heldout_seed_hash # None
    /\ proof.reuse_on.run_id # None /\ proof.reuse_off.run_id # None
    /\ proof.reuse_on.run_id # proof.reuse_off.run_id

(* downstream_oracle over outcomes [spec, tool]: <<concordant, discordant>>. *)
DownstreamOracle(outcomes) ==
    LET pairs == {p \in (DOMAIN outcomes) \X (DOMAIN outcomes) : outcomes[p[1]].spec > outcomes[p[2]].spec}
        concordant == {p \in pairs : outcomes[p[1]].tool >= outcomes[p[2]].tool}
    IN  <<Cardinality(concordant), Cardinality(pairs \ concordant)>>
Supports(outcomes) == DownstreamOracle(outcomes)[1] > DownstreamOracle(outcomes)[2]
=============================================================================
