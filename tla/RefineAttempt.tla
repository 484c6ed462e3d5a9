---------------------------- MODULE RefineAttempt ----------------------------
(***************************************************************************)
(* One tool directory between its refiners and its judge: what a refactor  *)
(* call of the controller goes through in ChainedRefiner, ClaudeCodeRefiner *)
(* and FallbackLLMRefiner (adapters/compound_engineering.py,               *)
(* llm_refiner.py) or in SpecRefiner (spec_refiner.py), and what CLIJudge  *)
(* then finds (judge.py).  The controller itself is LoopController; here   *)
(* it calls, retries, judges, keeps and restores in its order.             *)
(*                                                                         *)
(* The tool is the set of its paths that differ from the last snapshot and *)
(* the set of those git tracks.  A subprocess may die with part of its     *)
(* edits done; cli-judge may die without writing its report.               *)
(***************************************************************************)
EXTENDS Referees

CONSTANTS Emissions,    \* sequences of what an agent may emit as fork cards
          Usages,       \* the token counts an envelope may carry, None for no envelope
          ProviderKeys, \* providers whose key is set
          ToolReports,  \* what cli-judge may write
          MaxCalls      \* bound: calls of the refiner in a run

ASSUME UsagesAssumption == Usages \subseteq Nat \cup {None} /\ None \notin Nat

Paths   == {"src", "new"}          \* inside the tool; git does not know "new" at first
Targets == Paths \cup {"outside", "busy"}  \* "busy" cannot be opened for writing
Order   == <<"nim", "groq", "gemini", "ollama">>

VARIABLES kind,     \* the wiring of the run
          stage, rung, calls,
          got,      \* what the controller reads off the refiner
          ran,      \* history: what each rung of this call came to
          last_provider,
          dirty, index, outside,
          report, snapshot,  \* report.json as it is, and as the last snapshot has it
          verdict, answered  \* history: whether cli-judge wrote a report in the last call

refiner == <<rung, got, ran, last_provider>>
tool    == <<dirty, index, outside>>
judge   == <<report, snapshot, verdict, answered>>
vars    == <<kind, stage, calls, refiner, tool, judge>>

Chain == IF kind = "spec" THEN <<"SpecRefiner">> ELSE BuildLoopDeps(kind, FALSE).refiners

Nothing == [diff |-> None, infra |-> FALSE, cost |-> None, cards |-> <<>>, by |-> None]

Kinds == {"claude", "llm", "chain", "spec"}

Init ==
    /\ kind \in Kinds /\ stage = "new" /\ calls = 0
    /\ rung = 0 /\ got = Nothing /\ ran = <<>> /\ last_provider = None
    /\ dirty = {} /\ index = {"src"} /\ outside = {}
    /\ report = None /\ snapshot = None /\ verdict = None /\ answered = FALSE

(* Another run on the tool, by a new process, after this one has ended. *)
NewRun ==
    /\ stage \in {"idle", "over", "raised"}
    /\ kind' \in Kinds /\ stage' = "new" /\ calls' = 0
    /\ rung' = 0 /\ got' = Nothing /\ ran' = <<>> /\ last_provider' = None
    /\ verdict' = None /\ answered' = FALSE
    /\ UNCHANGED <<tool, report, snapshot>>

-----------------------------------------------------------------------------
(* The refiners.                                                           *)

(* An iteration opens with a snapshot; a call starts without any cost. *)
Begin ==
    /\ stage = "idle" /\ calls < MaxCalls
    /\ stage' = "rung" /\ calls' = calls + 1 /\ rung' = 1 /\ ran' = <<>> /\ got' = [got EXCEPT !.cost = None]
    /\ index' = index \cup dirty /\ dirty' = {} /\ snapshot' = report
    /\ UNCHANGED <<kind, last_provider, outside, report, verdict, answered>>

(* The controller retries an infra failure, on the tree as it was left. *)
Retry ==
    /\ stage = "returned" /\ got.infra /\ calls < MaxCalls
    /\ stage' = "rung" /\ calls' = calls + 1 /\ rung' = 1 /\ ran' = <<>> /\ got' = [got EXCEPT !.cost = None]
    /\ UNCHANGED <<kind, last_provider, tool, judge>>

\* Mutant of Account: a rung's cost replaces that of the one before.
AccountLast(total, cost) == cost
Account(total, cost) == IF cost = None THEN total ELSE IF total = None THEN cost ELSE total + cost

ReadOff(before, r, by) == [r EXCEPT !.cost = Account(before.cost, r.cost), !.by = by]

(* A rung has come to r: only an infra failure moves the chain on. *)
Rung(by, wrote, r) ==
    /\ dirty' = dirty \cup (wrote \cap Paths) /\ outside' = outside \cup (wrote \ Paths)
    /\ ran' = Append(ran, r) /\ got' = ReadOff(got, r, by)
    /\ IF r.diff = None /\ r.infra /\ rung < Len(Chain)
       THEN rung' = rung + 1 /\ UNCHANGED stage
       ELSE stage' = "returned" /\ UNCHANGED rung
    /\ UNCHANGED <<kind, calls, index, judge>>

(* git diff --shortstat is silent on files git does not know. *)
Shows(wrote) == (dirty \cup wrote) \cap index # {}

(* claude -p: it ends well or not, or is not there, and may leave edits behind. *)
RunClaude ==
    /\ stage = "rung" /\ Chain[rung] = "ClaudeCodeRefiner"
    /\ \E end \in {"ok", "failed", "missing"}, wrote \in SUBSET Paths, usage \in Usages, emitted \in Emissions :
          /\ end = "missing" => wrote = {} /\ usage = None /\ emitted = <<>>
          /\ Rung("claude", wrote,
                  [diff  |-> IF end = "ok" /\ Shows(wrote) THEN "diff" ELSE None,
                   infra |-> end # "ok", cost |-> usage, by |-> None,
                   cards |-> IF end = "ok" THEN ForkCardsFrom(emitted) ELSE <<>>])
    /\ UNCHANGED last_provider

DefaultChain == SelectSeq(Order, LAMBDA p : p \in ProviderKeys \cup {"ollama"})
LLMName(provider) == IF provider = None THEN "FallbackLLMRefiner" ELSE provider

(* Every provider fails, or the one that answers does so without content. *)
NoContent ==
    /\ stage = "rung" /\ Chain[rung] = "FallbackLLMRefiner"
    /\ \E provider \in Range(DefaultChain) \cup {last_provider} :
          /\ last_provider' = provider
          /\ Rung(LLMName(provider), {}, [Nothing EXCEPT !.infra = TRUE])

\* Mutant of Applied: an edit is applied wherever its path leads.
AppliedAnywhere(edits) == edits \ {"busy"}
(* Edits outside the tool are skipped, and so are those that cannot be written. *)
Applied(edits) == edits \cap Paths

(* The first provider that answers is the one whose edits are applied. *)
RunLLM ==
    /\ stage = "rung" /\ Chain[rung] = "FallbackLLMRefiner"
    /\ \E provider \in Range(DefaultChain), edits \in SUBSET Targets :
          /\ last_provider' = provider
          /\ Rung(LLMName(provider), Applied(edits),
                  [Nothing EXCEPT !.diff = IF Applied(edits) = {} THEN None
                                           ELSE IF Shows(Applied(edits)) THEN "diff" ELSE "applied"])

(* An answer without choices, or a directory that cannot be made after some of
   the edits, is not caught: the call raises and the run with it. *)
RaiseFromLLM ==
    /\ stage = "rung" /\ Chain[rung] = "FallbackLLMRefiner"
    /\ \E edits \in SUBSET Paths : dirty' = dirty \cup edits
    /\ stage' = "raised" /\ UNCHANGED <<kind, calls, refiner, index, outside, judge>>

(* SpecRefiner: an editor, the live one, or neither. *)
RunSpec ==
    /\ stage = "rung" /\ Chain[rung] = "SpecRefiner"
    /\ \E end \in {"ok", "failed", "unwired"}, wrote \in SUBSET {"src"} :
          /\ end = "unwired" => wrote = {}
          /\ Rung("spec-refiner", wrote,
                  [Nothing EXCEPT !.infra = end # "ok",
                                  !.diff = IF end = "ok" /\ wrote # {} THEN "spec-edited" ELSE None])
    /\ UNCHANGED last_provider

-----------------------------------------------------------------------------
(* The judge and the controller.                                           *)

(* CLIJudge reads what lies there, whether this call of cli-judge wrote it or not. *)
Judge ==
    /\ stage \in {"new", "returned"} /\ kind # "spec"
    /\ \/ answered' = TRUE /\ report' \in ToolReports
       \/ answered' = FALSE /\ UNCHANGED report
    /\ verdict' = JudgeReport(report', FALSE)
    /\ stage' = "judged" /\ UNCHANGED <<kind, calls, refiner, tool, snapshot>>

JudgeDocument ==
    /\ stage \in {"new", "returned"} /\ kind = "spec"
    /\ verdict' = SpecJudge(Scaffold) /\ answered' = TRUE
    /\ stage' = "judged" /\ UNCHANGED <<kind, calls, refiner, tool, report, snapshot>>

Keep == /\ stage = "judged" /\ verdict.safe
        /\ stage' = "idle" /\ UNCHANGED <<kind, calls, refiner, tool, judge>>

(* A baseline that is not safe ends the run, and so does an unsafe attempt. *)
HaltAtBaseline == /\ stage = "judged" /\ calls = 0 /\ ~verdict.safe
                  /\ stage' = "over" /\ UNCHANGED <<kind, calls, refiner, tool, judge>>

(* GitCheckpoint.restore: what git does not track stays. *)
Undo ==
    /\ stage = "judged" /\ calls > 0
    /\ stage' = IF verdict.safe THEN "idle" ELSE "over"
    /\ dirty' = dirty \ index
    /\ report' = IF snapshot = None THEN report ELSE snapshot
    /\ UNCHANGED <<kind, calls, refiner, index, outside, snapshot, verdict, answered>>

Next ==
    \/ NewRun \/ Begin \/ Retry \/ RunClaude \/ NoContent \/ RunLLM \/ RaiseFromLLM \/ RunSpec
    \/ Judge \/ JudgeDocument \/ Keep \/ HaltAtBaseline \/ Undo

Spec == Init /\ [][Next]_vars

-----------------------------------------------------------------------------
(* Properties.                                                             *)

(* The tokens of a call, each with the rung it was spent on. *)
Tokens(rungs) == UNION {{k} \X (1..rungs[k].cost) : k \in {j \in DOMAIN rungs : rungs[j].cost # None}}
Spent == Cardinality(Tokens(ran))

(* The token gate sees what a call cost, the failed rungs included, and no cost
   only where no rung gave one; a call that reports an infra failure has tried
   every rung, and one that went on to a further rung did so after nothing else
   (ChainedRefiner.refactor). *)
CallIsAccounted ==
    stage = "returned" =>
        /\ got.cost = IF \A k \in DOMAIN ran : ran[k].cost = None THEN None ELSE Spent
        /\ got.infra => Len(ran) = Len(Chain)
        /\ \A k \in DOMAIN ran : k < Len(ran) => ran[k].infra

(* What reaches the controller is of the rung that gave the result: fork cards
   only of an agent that ended well, a change only where a path of the tool was
   written in this iteration, and nothing is ever written outside the tool. *)
NothingLeaks ==
    /\ outside = {}
    /\ stage = "returned" =>
          /\ got.cards = Last(ran).cards
          /\ got.cards # <<>> => ~got.infra /\ got.by = "claude"
          /\ got.diff # None => dirty # {} /\ ~got.infra

(* "No report -> cannot certify safety. Fail closed (KTD5): an absent verdict
   must not be read as "safe"" (adapters/judge.py:228): a tool passes as safe
   only when this call of cli-judge said so. *)
SafeMeansJudged == stage = "judged" /\ verdict.safe => answered
=============================================================================
