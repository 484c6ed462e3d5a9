------------------------------ MODULE Gradings ------------------------------
(***************************************************************************)
(* The pure parts of the engine, one question at a time: a judge is called *)
(* on an artefact, a rubric is audited, an ablation is recorded, a fleet   *)
(* spec is read, a judge adapter is looked for, third-party code is        *)
(* installed.  The state is the last question with its answer, and what    *)
(* is checked is what a caller may conclude from the answer.               *)
(***************************************************************************)
EXTENDS Referees

CONSTANTS Skills, Summaries, Texts, Specs, Rollouts, Draws, Reports, Probes, Cards, Briefs,
          Libraries, Items, Legs, Outcomes, FleetSpecs, Hosts, Adapters, Installs, Environments

(* What the questions are about, as far as an answer rests on it. *)
ASSUME NoneAssumption ==
    /\ None \notin BOOLEAN
    /\ None \notin {"first", "accepted", "rolled_back", "reversed", "absent", "goal", "name", "description"}
ASSUME SpecsAssumption ==
    \A s \in Specs :
        /\ DOMAIN s = DOMAIN Scaffold /\ s.file \in {"text", "gone", "bytes"}
        /\ s.blocks \in Seq(Range(s.blocks))
ASSUME RolloutsAssumption ==
    /\ NaN \notin Int
    /\ \A r \in Rollouts : /\ r \in Seq(Range(r)) /\ r # <<>>
                          /\ \A k \in DOMAIN r : r[k].reward = NaN \/ r[k].reward \in Int
ASSUME DrawsAssumption == \A draws \in Draws : draws \in Seq(Range(draws))
ASSUME ReportsAssumption ==
    \A r \in Reports : r # None =>
        /\ {r.safety_blocker, r.safety_gate_failed, r.safety_capped, r.passed} \subseteq BOOLEAN \cup {None}
        /\ r.dims \in Seq(Range(r.dims))
        /\ \A k \in DOMAIN r.dims : r.dims[k][2] \in Int /\ r.dims[k][3] \in Int
ASSUME ProbesAssumption ==
    \A v \in Probes :
        v \in Seq(Range(v)) /\ \A k \in DOMAIN v : v[k].score \in Int /\ v[k].grade \in Int
ASSUME BriefsAssumption ==
    \A b \in Briefs : b.outcome \in {None, "first", "accepted", "rolled_back", "reversed"}
ASSUME LibrariesAssumption ==
    \A entries \in Libraries :
        /\ entries \in Seq(Range(entries))
        /\ \A k \in DOMAIN entries : LET front == entries[k].front
                                     IN  front # None =>
                                            /\ front \in Seq(Range(front))
                                            /\ \A j \in DOMAIN front : front[j][1] = "" => front[j][2] # "|"
ASSUME ItemsAssumption ==
    \A items \in Items : \A i \in DOMAIN items :
        items[i].expect \in {None, "absent"} /\ items[i].probe \in {"found", "missing", "error"}
ASSUME LegsAssumption == \A leg \in Legs : leg.iterations \in Int
ASSUME OutcomesAssumption == \A o \in Outcomes : IsFiniteSet(DOMAIN o)
ASSUME FleetSpecsAssumption == \A items \in FleetSpecs : items \in Seq(Range(items))
ASSUME AdaptersAssumption ==
    \A q \in Adapters :
        /\ q.override # None => q.override \in Seq(STRING)
        /\ q.registry # None => q.registry \in Seq(STRING)
        /\ \A name \in {q.gen.manifest.judgeAdapter, q.gen.manifest.id} :
              name # None => name.path \in Seq(STRING)

VARIABLES asked,  \* the kind of the question
          about,  \* what it was about
          answer

vars == <<asked, about, answer>>

Fresh == asked = "nothing"
Ask(kind, q, a) == asked' = kind /\ about' = q /\ answer' = a

Init == asked = "nothing" /\ about = None /\ answer = None

JudgeSkill ==
    /\ Fresh
    /\ \E a \in Skills : Ask("skill", a, ToolingJudge(a))

(* The factory's own skill is judged like any other. *)
JudgeGenerated ==
    /\ Fresh
    /\ \E goal \in Texts, summary \in Summaries :
           Ask("skill", Generate(goal, summary), ToolingJudge(Generate(goal, summary)))

(* The spec that was synthesized, or what a refiner or anybody made of it. *)
JudgeSpec ==
    /\ Fresh
    /\ \E s \in Specs : \E document \in {s, SynthesizeSpec(s)} :
           Ask("spec", document, SpecJudge(document))

JudgePolicy ==
    /\ Fresh
    /\ \E r \in Rollouts : Ask("policy", r, SimJudge(r))

DrawSeeds ==
    /\ Fresh
    /\ \E draws \in Draws, n \in 0..2, dev \in SUBSET {1, 2} :
           Ask("seeds", [n |-> n, dev |-> dev], HeldoutSeeds(draws, n, dev))

ReadReport ==
    /\ Fresh
    /\ \E r \in Reports, strict \in BOOLEAN :
           Ask("report", [report |-> r, strict |-> strict],
               [verdict |-> JudgeReport(r, strict), failing |-> IF r = None THEN {} ELSE Failing(r),
                feedback |-> IF r = None THEN None ELSE DistillFeedback(r)])

ProbeVariance ==
    /\ Fresh
    /\ \E verdicts \in Probes : Ask("variance", verdicts, VarianceReport(verdicts))

(* Whatever the refiner emitted is parsed, and what it parsed to is resolved. *)
ResolveCards ==
    /\ Fresh
    /\ \E emitted \in Cards, spec \in {None, 1}, oracle \in {None, 1, 2} :
           Ask("forks", [emitted |-> emitted, spec |-> spec, oracle |-> oracle],
               LET cards == ForkCardsFrom(emitted)
               IN  [k \in DOMAIN cards |-> [card |-> cards[k], by |-> ResolveFork(cards[k], spec, oracle)]])

BuildPrompt ==
    /\ Fresh
    /\ \E b \in Briefs, refiner \in {"claude", "llm", "spec"} :
           Ask("prompt", [brief |-> b, refiner |-> refiner], Prompt(refiner, b))

AuditLibrary ==
    /\ Fresh
    /\ \E entries \in Libraries : Ask("library", entries, ResidencyAudit(entries, 1))

Audit ==
    /\ Fresh
    /\ \E items \in Items : Ask("audit", items, [gate |-> AuditGate(items), rate |-> ConformanceRate(items)])

RunAblationPair ==
    /\ Fresh
    /\ \E on \in Legs, off \in Legs, hash \in {None, "hash"} :
           LET proof == AblationResult(on, off, hash)
           IN  Ask("ablation", [on |-> on, off |-> off], IF ValidFlywheelProof(proof) THEN proof ELSE None)

AskOracle ==
    /\ Fresh
    /\ \E o \in Outcomes : Ask("oracle", o, Supports(o))

SubmitFleet ==
    /\ Fresh
    /\ \E items \in FleetSpecs, host \in Hosts, dryRun \in BOOLEAN :
           /\ ParseFleetSpec(items)
           /\ Ask("fleet", [items |-> items, host |-> host, dryRun |-> dryRun],
                  IF FleetMayStart(items, host, dryRun) THEN MaterializeFleet(items, "goal") ELSE None)

(* The adapter a run is judged with, when its wiring passes as well. *)
FindAdapter ==
    /\ Fresh
    /\ \E q \in Adapters, refiner \in {"claude", "llm", "chain"} :
           LET adapter == ResolveJudgeAdapter(q.gen, q.override, q.registry)
               deps    == BuildLoopDeps(refiner, TRUE)
               wiring  == [refiner |-> Last(deps.refiners), judge |-> "CLIJudge", oracle |-> "NoGroundingOracle",
                           referees |-> {adapter}, writes |-> {q.gen.tool}, dev |-> q.dev, heldout |-> q.heldout]
           IN  Ask("adapter", q, IF adapter # None /\ LoopIntegrity(wiring) THEN adapter ELSE None)

Install ==
    /\ Fresh
    /\ \E spec \in Installs, env \in Environments, root \in {<<"c">>, <<"w">>, <<"link">>} :
           Ask("install", [spec |-> spec, root |-> root], InstallConnector(spec, root, <<"w">>, env))

AdoptTool ==
    /\ Fresh
    /\ \E spec \in Installs, env \in Environments, root \in {<<"c">>, <<"w">>, <<"link">>} :
           Ask("adopt", [spec |-> spec, root |-> root],
               IF Adopt(spec, root, TRUE) = None THEN None ELSE PrunedEnv(env, spec.required))

(* None of them remembers: the next question finds what the first one found. *)
Return == ~Fresh /\ asked' = "nothing" /\ about' = None /\ answer' = None

Next ==
    \/ JudgeSkill \/ JudgeGenerated \/ JudgeSpec \/ JudgePolicy \/ DrawSeeds \/ ReadReport
    \/ ProbeVariance \/ ResolveCards \/ BuildPrompt \/ AuditLibrary \/ Audit
    \/ RunAblationPair \/ AskOracle \/ SubmitFleet \/ FindAdapter \/ Install \/ AdoptTool
    \/ Return

Spec == Init /\ [][Next]_vars

-----------------------------------------------------------------------------
(* What is concluded from a question q and its answer a.                   *)

(* A skill with any grade above F can be loaded and is safe, and what the
   factory makes of texts without paths or commands is an A. *)
SkillIsSound(q, a) ==
    /\ a.grade > F => q.skill /\ q.readable /\ q.loadable /\ ~q.unsafe
    /\ q.name = "dir" /\ q.refs = <<"compiles">> /\ q.loadable /\ q.skill
          /\ q.readable /\ q.described /\ ~q.unsafe => a.grade = 5

(* A letter above F is that of a spec that was read and is not blank.  An A spec
   has units, more than nine twentieths of their headings with tests (the parts
   are rounded), says where it stands, and dangles in one of its two kinds of
   reference at most.  Of bytes that are no UTF-8 there is no verdict at all. *)
SpecIsSound(q, a) ==
    /\ a # None /\ a.grade > F => q.file = "text" /\ ~q.blank
    /\ a # None /\ a.grade = 5 =>
          /\ q.blocks # <<>> /\ 20 * Cardinality(TestedBlocks(q)) > 9 * Len(q.blocks) /\ q.cited
          /\ q.unitRefs \subseteq UnitIds(q) \/ q.rDefs = {} \/ q.rRefs \subseteq q.rDefs

(* A policy that passes as safe gave a number on every seed and went over no
   cap; a grade above F needs a seed with the reward of a band. *)
PolicyIsSound(q, a) ==
    /\ a.safe => \A k \in DOMAIN q :
          /\ q[k].reward # NaN
          /\ \A c \in DOMAIN q[k].cost : Within(q[k].cost[c], IF c \in {"velocity", "torque"} THEN 1 ELSE 0)
    /\ a.grade > F => \E k \in DOMAIN q : q[k].reward >= 25

(* The seeds of the final grade are as many as asked, distinct, and none of
   them a seed the maker trained on. *)
SeedsAreHeldOut(q, a) ==
    a # None => Cardinality(Range(a)) = q.n /\ q.n > 0 /\ Range(a) \cap q.dev = {}

(* A tool passes as safe only on a report that reads, whose first word on safety
   is that it is; a strict judge wants a word. *)
PassIsSaid(q, a) ==
    LET r    == q.report
        said == {r.safety_blocker, r.safety_gate_failed, r.safety_capped}
    IN  a.verdict.safe =>
            /\ r # None /\ r.shape = "ok" /\ r.safety_blocker # TRUE
            /\ TRUE \in said => FALSE \in said
            /\ r.passed = FALSE \/ q.strict => FALSE \in said \/ r.passed = TRUE

(* The feedback leaves out no dimension that lost a larger share than one it
   names, and leaves one out only when it names three. *)
WeakestAreNamed(q, a) ==
    q.report # None =>
        LET dims  == q.report.dims
            named == a.feedback.weakest
        IN  \A k \in DOMAIN dims \ named : dims[k][3] > 0 =>
                /\ Cardinality(named) = 3
                /\ \A i \in named : dims[i][2] * dims[k][3] <= dims[k][2] * dims[i][3]

(* With the noise band a variance probe recommends, is_improvement takes no
   verdict it saw of the unchanged tool for a gain on another: under a score
   target always, on the letter ladder when the probe calls the letter stable.
   When it does not, a better letter counts whatever the band is. *)
VarianceIsCovered(q, a) ==
    \A i, j \in DOMAIN q, onScore \in BOOLEAN :
        onScore \/ a.grade_stable =>
            ~IsImprovement(q[i], q[j], onScore, a.recommended_min_score_gain)

(* A fork is reversed only away from a default that is one of its options,
   towards another one, on the word of an oracle and where the spec is silent. *)
ForksAreGrounded(q, a) ==
    \A k \in DOMAIN a : a[k].by.decision = "reverse" =>
        /\ q.spec = None /\ q.oracle # None
        /\ a[k].card.default \in a[k].card.options \ {q.oracle}

(* A maker whose attempt was undone is told so, and never to build on it; one
   whose attempt was kept is never told to do something else. *)
PromptReflects(q, a) ==
    q.refiner # "spec" =>
        /\ q.brief.outcome \in {"rolled_back", "reversed"} <=> "different" \in a
        /\ q.brief.outcome = "accepted" <=> "kept" \in a

(* Every entry is counted once, as a phantom, a skill or a copy of one; what is
   resident is what triggers, and a block indicator is no description. *)
LibraryAddsUp(q, a) ==
    /\ a.phantom + a.readable = Len(q)
    /\ a.readable - a.distinct >= Cardinality(a.duplicates)
    /\ a.duplicates = {} => a.readable = a.distinct
    /\ a.resident = 0 <=> Cardinality(a.untriggered) = a.distinct
    /\ \A k \in DOMAIN q : q[k].readable /\ q[k].front # None =>
          "|" \notin Range(ParseFrontmatter(q[k].front)["description"])

(* The gate of the audit is open just when every claim is found and every
   declared gap is still one, each by a probe that ran; the rate is then full. *)
AuditIsHonest(q, a) ==
    /\ a.gate <=> \A i \in DOMAIN q : q[i].probe = IF q[i].expect = None THEN "found" ELSE "missing"
    /\ a.gate => a.rate[1] = a.rate[2]

(* A recorded ablation is of two runs, and credits reuse only when the leg that
   reused converged, and sooner than the other if that did. *)
AblationIsReal(q, a) ==
    a # None =>
        /\ q.on.run_id # q.off.run_id
        /\ a.reuse_helped => q.on.converged /\ (q.off.converged => a.delta_iters > 0)

(* The fleet that is written down is one run_fleet can run: distinct keys,
   dependencies on its own items, a goal and, unless it is a dry run, the tools
   of every item's lane. *)
FleetIsRunnable(q, a) ==
    a # None =>
        /\ Cardinality(FleetKeys(a)) = Len(a)
        /\ \A i \in DOMAIN a :
              /\ a[i].goal # None /\ a[i].deps \subseteq FleetKeys(a)
              /\ ~q.dryRun => LET lane == Route(a[i].target, a[i].lane)
                             IN  lane # None /\ \A dep \in DEPENDENCIES :
                                    dep.lanes = {} \/ lane \in dep.lanes => Detect(dep, q.host)

(* The oracle supports the rubric only when the better spec gave no worse a tool
   in more than half of the pairs the rubric tells apart. *)
OracleIsFounded(q, a) ==
    a => LET apart  == {p \in (DOMAIN q) \X (DOMAIN q) : q[p[1]].spec > q[p[2]].spec}
             agreed == {p \in apart : q[p[1]].tool >= q[p[2]].tool}
         IN  apart # {} /\ 2 * Cardinality(agreed) > Cardinality(apart)

(* The adapter is a file that really lies outside the tool, and in the registry
   unless the operator names it, and no final seed was trained on. *)
AdapterIsOutside(q, a) ==
    a # None =>
        /\ Exists(a) /\ ~IsPrefix(Real(q.gen.tool), Real(a))
        /\ q.override = None => IsPrefix(Real(q.registry), Real(a))
        /\ q.dev # None => q.dev \cap q.heldout = {}

(* A connector really lies outside the worktree and is handed declared variables
   and infrastructure only. *)
ConnectorIsOutside(q, a) ==
    a # None =>
        /\ ~IsPrefix(Real(<<"w">>), Real(q.root))
        /\ q.spec.required \subseteq {v.name : v \in a}
        /\ \A v \in a : v.infra \/ v.name \in q.spec.required

(* An adopted tool is a pinned one, and is handed no secret it does not declare. *)
ToolIsPinned(q, a) ==
    a # None => q.spec.sha = "full" /\ \A v \in a : v.secret => v.name \in q.spec.required

-----------------------------------------------------------------------------
(* Properties.                                                             *)

(* What the graders and the readers let through is what it is let through for:
   the parts above are what a later step takes for granted of each. *)
PassesAreSound ==
    /\ asked = "skill"    => SkillIsSound(about, answer)
    /\ asked = "spec"     => SpecIsSound(about, answer)
    /\ asked = "policy"   => PolicyIsSound(about, answer)
    /\ asked = "seeds"    => SeedsAreHeldOut(about, answer)
    /\ asked = "report"   => PassIsSaid(about, answer) /\ WeakestAreNamed(about, answer)
    /\ asked = "variance" => VarianceIsCovered(about, answer)
    /\ asked = "forks"    => ForksAreGrounded(about, answer)
    /\ asked = "prompt"   => PromptReflects(about, answer)
    /\ asked = "library"  => LibraryAddsUp(about, answer)
    /\ asked = "audit"    => AuditIsHonest(about, answer)
    /\ asked = "ablation" => AblationIsReal(about, answer)
    /\ asked = "fleet"    => FleetIsRunnable(about, answer)
    /\ asked = "oracle"   => OracleIsFounded(about, answer)

(* What judges and what is installed stay out of reach of what they judge and
   meet: the three parts above. *)
OutOfReach ==
    /\ asked = "adapter" => AdapterIsOutside(about, answer)
    /\ asked = "install" => ConnectorIsOutside(about, answer)
    /\ asked = "adopt"   => ToolIsPinned(about, answer)
=============================================================================
