----------------------------- MODULE FrontDoor -----------------------------
(***************************************************************************)
(* What is decided before a loop starts: the route of a target (router.py, *)
(* domains/), the tools that must be installed (preflight.py), the judge   *)
(* adapter (adapters/judge.py), the wiring (bindings.py), the integrity    *)
(* contract and the verification gate (loop/integrity.py), the adoption of *)
(* a catalog tool (adopt.py), connectors/ and the fleet spec               *)
(* (orchestration/spec.py).  These are operators on what the code looks    *)
(* at; the commands that use them are actions of RunRecords.               *)
(*                                                                         *)
(* A target is what the classifiers ask of it: [text, exists, dir, skill,  *)
(* suffix, url].  A path is the sequence of its names.  The disk is Files, *)
(* the places where something is, and Links, the places that are symbolic  *)
(* links with the real places they lead to.  A host is what preflight      *)
(* probes: [bins, plugin, assumed].  None stands for Python's None, and    *)
(* for a refusal where the code raises.                                    *)
(***************************************************************************)
EXTENDS Integers, Sequences, FiniteSets, SequencesExt

CONSTANTS None, Files, Links

-----------------------------------------------------------------------------
(* Routing.                                                                *)

Blank(t) == t = None \/ t.text = "blank"

(* validate_target: blank targets and shell metacharacters are refused. *)
ValidTarget(t) == ~Blank(t) /\ t.text # "meta"

(* An existing path goes by what it is, any other by how it is spelled. *)
ClassifySoftware(t) ==
    IF Blank(t) THEN None
    ELSE IF t.exists /\ t.dir THEN "codebase"
    ELSE IF t.suffix \in {"har", "openapi"} THEN "service"
    ELSE IF t.exists \/ t.url = "git" THEN "codebase"
    ELSE IF t.url = "http" THEN "service" ELSE None

IsToolingTarget(t) == ~Blank(t) /\ t.exists /\ t.skill

(* In the order they are asked. *)
REGISTRY == <<"tooling-skill", "software-service", "software-codebase">>

Classifies(domain, t) ==
    CASE domain = "tooling-skill"     -> IsToolingTarget(t)
      [] domain = "software-service"  -> ClassifySoftware(t) = "service"
      [] domain = "software-codebase" -> ClassifySoftware(t) = "codebase"

(* The forced domain, else the first registered one that claims the target. *)
ResolveDomain(t, forced) ==
    LET chosen(d) == IF forced # None THEN d = forced ELSE Classifies(d, t)
        first     == SelectInSeq(REGISTRY, chosen)
    IN  IF first = 0 THEN None ELSE REGISTRY[first]

(* The lane of a run: a forced one wins, a domain without a lane is refused. *)
Route(t, forcedLane) ==
    IF Blank(t) THEN None
    ELSE IF forcedLane # None THEN forcedLane
    ELSE IF ResolveDomain(t, None) = "tooling-skill" THEN None
    ELSE ClassifySoftware(t)

-----------------------------------------------------------------------------
(* Preflight.                                                              *)

DEPENDENCIES ==
    { [key |-> "printing-press", probes |-> {"printing-press", "cli-printing-press"}, lanes |-> {"service"}],
      [key |-> "cli-anything",   probes |-> {"cli-anything", "cli-hub"}, lanes |-> {"codebase"}],
      [key |-> "cli-judge",      probes |-> {"cli-judge"}, lanes |-> {}],
      [key |-> "compound-engineering", probes |-> {}, lanes |-> {}] }

(* A binary is on PATH under one of its names; the plugin is on disk, or the
   operator says so. *)
Detect(dep, host) ==
    IF dep.probes # {} THEN dep.probes \cap host.bins # {}
    ELSE dep.key \in host.assumed \/ (dep.key = "compound-engineering" /\ host.plugin)

Missing(required, host) ==
    {dep.key : dep \in {d \in DEPENDENCIES : d.key \in required /\ ~Detect(d, host)}}

RequiredKeys(lane) ==
    {dep.key : dep \in {d \in DEPENDENCIES : d.lanes = {} \/ lane \in d.lanes}}
MissingForLane(lane, host) == Missing(RequiredKeys(lane), host)

RequiredKeysForRefine(refiner) ==
    {dep.key : dep \in {d \in DEPENDENCIES : d.lanes = {}}}
        \ (IF refiner = "llm" THEN {"compound-engineering"} ELSE {})
MissingForRefine(refiner, host) == Missing(RequiredKeysForRefine(refiner), host)

-----------------------------------------------------------------------------
(* Paths.                                                                  *)

(* normpath: ".." takes the name before it away. *)
Norm(path) ==
    LET upTo[k \in 0..Len(path)] ==
            IF k = 0 THEN <<>>
            ELSE IF path[k] # ".." THEN Append(upTo[k - 1], path[k])
            ELSE IF upTo[k - 1] = <<>> THEN <<>> ELSE Front(upTo[k - 1])
    IN  upTo[Len(path)]

(* os.path.join and abspath: an absolute name stands for itself. *)
Join(base, name) == Norm(IF name.abs THEN name.path ELSE base \o name.path)

(* realpath: the link a path goes through is replaced by where it leads. *)
Real(path) ==
    LET p       == Norm(path)
        through == {n \in 1..Len(p) : SubSeq(p, 1, n) \in DOMAIN Links}
    IN  IF through = {} THEN p
        ELSE LET n == CHOOSE k \in through : \A i \in through : k <= i
             IN  Links[SubSeq(p, 1, n)] \o SubSeq(p, n + 1, Len(p))

WithinWorkspace(path, root) == IsPrefix(Real(root), Real(path))

(* _is_within of integrity.py looks at the spelling alone. *)
IsWithin(inner, outer) == IsPrefix(Norm(outer), Norm(inner))

Exists(path) == Real(path) \in Files

-----------------------------------------------------------------------------
(* The referee.                                                            *)

OutOfJail(path, tool) == IF WithinWorkspace(path, tool) THEN None ELSE Norm(path)

(* The file of the registry that the manifest names, in words or by its id. *)
Named(manifest) == IF manifest.judgeAdapter # None THEN manifest.judgeAdapter ELSE manifest.id

\* Mutant of ResolveJudgeAdapter: the manifest's path is used as it stands.
ResolveWithoutGuards(gen, override, registry) ==
    IF override # None THEN IF Exists(override) THEN OutOfJail(override, gen.tool) ELSE None
    ELSE IF registry = None \/ Named(gen.manifest) = None THEN None
    ELSE LET cand == Join(registry, Named(gen.manifest))
         IN  IF Exists(cand) THEN OutOfJail(cand, gen.tool) ELSE None

(* The operator's adapter, else the registry's, and never one in the tool. *)
ResolveJudgeAdapter(gen, override, registry) ==
    IF override # None THEN IF Exists(override) THEN OutOfJail(override, gen.tool) ELSE None
    ELSE IF registry = None \/ Named(gen.manifest) = None THEN None
    ELSE LET cand == Join(registry, Named(gen.manifest))
         IN  IF WithinWorkspace(cand, registry) /\ Exists(cand)
             THEN OutOfJail(cand, gen.tool) ELSE None

MakerDistinctFromChecker(w) == w.refiner # None /\ w.judge # None /\ w.refiner # w.judge
OracleDistinctFromChecker(w) == w.judge # None /\ w.oracle # w.judge
OracleDistinctFromMaker(w) == w.refiner # None /\ w.oracle # w.refiner

RefereeImmutableToMaker(w) ==
    \A referee \in w.referees, maker \in w.writes : ~IsWithin(referee, maker)

HeldoutDisjoint(w) == w.heldout # {} /\ w.dev \cap w.heldout = {}

(* assert_loop_integrity on a wiring w, whose fields are the identities of the
   collaborators, the declared paths and the declared seeds. *)
LoopIntegrity(w) ==
    /\ MakerDistinctFromChecker(w)
    /\ w.oracle # None => OracleDistinctFromChecker(w) /\ OracleDistinctFromMaker(w)
    /\ RefereeImmutableToMaker(w)
    /\ (w.dev # None \/ w.heldout # None) => w.dev # None /\ w.heldout # None /\ HeldoutDisjoint(w)

(* build_loop_deps: the refiners in the order they are tried, whether
   /ce-compound is wired, whether a provider key is looked for. *)
BuildLoopDeps(kind, compound) ==
    [refiners    |-> CASE kind = "claude" -> <<"ClaudeCodeRefiner">>
                       [] kind = "llm"    -> <<"FallbackLLMRefiner">>
                       [] kind = "chain"  -> <<"ClaudeCodeRefiner", "FallbackLLMRefiner">>,
     compounder  |-> kind # "llm" /\ compound,
     providerKey |-> kind # "claude"]

-----------------------------------------------------------------------------
(* The verification gate.  gate is require_human_confirm, ci whether the CI
   variable of the environment is truthy. *)

GateRequiresConfirmation(gate, scheduled, ci) == gate /\ (scheduled \/ ~ci)

ConfirmConvergence(gate, scheduled, ci, confirmed) ==
    GateRequiresConfirmation(gate, scheduled, ci) => confirmed

-----------------------------------------------------------------------------
(* Adoption and connectors: third-party code that is installed and run.    *)

(* validate_spec of adopt.py and of connectors/base.py; a sha is "full" or a
   tag, a name or subdir "plain" or not. *)
ValidAdoption(spec) ==
    /\ spec.catalog \in {"cli-anything", "printing-press"}
    /\ spec.kind \in {"pip_git_subdir", "pp_binary"}
    /\ spec.sha = "full" /\ spec.name = "plain"
ValidConnector(spec) ==
    spec.name = "plain" /\ spec.sha = "full" /\ spec.subdir \in {None, "plain"}

(* pruned_env: what looks like a secret is dropped, unless the tool needs it. *)
PrunedEnv(env, required) == {v \in env : ~v.secret \/ v.name \in required}

(* minimal_env: the infrastructure names, and what is handed over. *)
MinimalEnv(env, extra) == {v \in env : v.infra \/ v.name \in extra}

MissingCredentials(required, env) == required \ {v.name : v \in env}

(* Where an adopted tool is; None when the spec or the install fails. *)
Adopt(spec, workspace, installed) ==
    LET place == workspace \o (IF spec.kind = "pip_git_subdir" THEN <<".pkg">> ELSE <<"bin">>)
    IN  IF ValidAdoption(spec) /\ WithinWorkspace(place, workspace) /\ installed
        THEN place ELSE None

(* The environment a connector is installed with; None when it is refused. *)
InstallConnector(spec, root, worktree, env) ==
    IF \/ ~ValidConnector(spec) \/ MissingCredentials(spec.required, env) # {}
       \/ WithinWorkspace(root, worktree)
    THEN None ELSE MinimalEnv(env, spec.required)

(* act of the reference connector: does the payload go out? *)
FileReport(payload, env, dryRun, delivered) ==
    /\ MissingCredentials({"LOOPENG_REPORT_TOKEN"}, env) = {}
    /\ payload.action = "file_report" /\ payload.title # None /\ payload.body # None
    /\ dryRun \/ delivered

-----------------------------------------------------------------------------
(* The fleet spec.  An entry is [key, target, goal, lane, deps].           *)

FleetKeys(items) == {items[i].key : i \in DOMAIN items}

ParseFleetSpec(items) ==
    /\ items # <<>>
    /\ \A i \in DOMAIN items :
          /\ items[i].key # None /\ \A j \in 1..(i - 1) : items[j].key # items[i].key
          /\ ~Blank(items[i].target)
          /\ items[i].lane \in {None, "service", "codebase"}
          /\ items[i].deps \subseteq FleetKeys(items)

(* _execute_fleet, before any row is written: every item has a lane, and the
   tools of every lane are there.  A dry run checks nothing. *)
FleetMayStart(items, host, dryRun) ==
    LET lanes == {Route(items[i].target, items[i].lane) : i \in DOMAIN items}
    IN  dryRun \/ (None \notin lanes /\ \A lane \in lanes : MissingForLane(lane, host) = {})

(* materialize_fleet: an item without a goal inherits the fleet's. *)
MaterializeFleet(items, fleetGoal) ==
    [i \in DOMAIN items |->
        LET item == items[i]
        IN  [key |-> item.key, target |-> item.target, lane |-> item.lane, deps |-> item.deps,
             goal |-> IF item.goal = None THEN fleetGoal ELSE item.goal, status |-> "pending"]]
=============================================================================
