----------------------------- MODULE RunContract -----------------------------
(***************************************************************************)
(* The run contract (contracts/run_contract.py): a file a caller writes    *)
(* and a person reads, parsed into the target, goal, lane and budget of  *)
(* a run, the gate it must leave on, and the evidence its proof pack must  *)
(* carry.                                                                  *)
(*                                                                         *)
(* A document is a record [suffix, keys, version, target, goal, lane,      *)
(* budget, gate, evidence]; keys are all its top-level keys, budget, gate  *)
(* and evidence functions from their keys.  A value is [kind, n]: an int,  *)
(* a float, a nan (which no comparison finds too small), a null or some-   *)
(* thing else.                                                             *)
(***************************************************************************)
EXTENDS FrontDoor

CONSTANTS DefaultBudget,  \* Budget(), by knob
          GradeRank       \* the letters, by rank

TopKeys == {"version", "name", "target", "goal", "lane", "budget", "gate", "evidence"}

(* The proof-pack fields that make each nameable evidence real. *)
EvidenceFields ==
    [grade_trajectory   |-> {"before_grade", "after_grade"},
     dimension_diff     |-> {"dim_diff"},
     iterations         |-> {"iterations"},
     convergence_status |-> {"convergence_status"},
     elapsed            |-> {"elapsed_seconds"},
     token_cost         |-> {"token_cost"},
     regression_tests   |-> {"regression_tests"}]

Knob(whole, minimum, optional) == [whole |-> whole, minimum |-> minimum, optional |-> optional]
BudgetNumeric ==
    [target_score         |-> Knob(FALSE, 0, TRUE),
     max_iterations       |-> Knob(TRUE, 1, FALSE),
     plateau_patience     |-> Knob(TRUE, 1, FALSE),
     plateau_pivots       |-> Knob(TRUE, 0, FALSE),
     token_budget         |-> Knob(TRUE, 1, TRUE),
     max_wall_seconds     |-> Knob(FALSE, 1, TRUE),
     max_tool_retries     |-> Knob(TRUE, 0, FALSE),
     compression_interval |-> Knob(TRUE, 1, FALSE),
     min_score_gain       |-> Knob(FALSE, 0, FALSE)]

-----------------------------------------------------------------------------
(* _number on a knob the document has. *)
NumberOk(key, v) ==
    LET knob == BudgetNumeric[key]
    IN  CASE v.kind = "null"  -> knob.optional
          [] v.kind = "int"   -> v.n >= knob.minimum
          [] v.kind = "float" -> ~knob.whole /\ v.n >= knob.minimum
          [] v.kind = "nan"   -> ~knob.whole
          [] OTHER            -> FALSE

Knobs == DOMAIN BudgetNumeric

BudgetOk(data) ==
    /\ DOMAIN data \subseteq Knobs \cup {"target_grade"}
    /\ "target_grade" \in DOMAIN data => data["target_grade"] \in DOMAIN GradeRank
    /\ \A key \in DOMAIN data \cap Knobs : NumberOk(key, data[key])

(* What the document sets replaces the defaults; a null unsets. *)
ParseBudget(data) ==
    [key \in DOMAIN DefaultBudget |->
        IF key \notin DOMAIN data THEN DefaultBudget[key]
        ELSE IF key = "target_grade" THEN GradeRank[data[key]]
        ELSE IF data[key].kind = "null" THEN None ELSE data[key].n]

(* The gate may only be left on. *)
GateOk(data) ==
    /\ DOMAIN data \subseteq {"require_human_confirm"}
    /\ \A key \in DOMAIN data : data[key] = TRUE

EvidenceOk(data) ==
    /\ DOMAIN data \subseteq {"required"}
    /\ \A key \in DOMAIN data : Range(data[key]) \subseteq DOMAIN EvidenceFields

ParseEvidence(data) == UNION {Range(data[key]) : key \in DOMAIN data}

LaneOk(lane) == lane \in {None, "service", "codebase"}

(* load_contract and parse_contract: None when anything in the file is not
   what the engine enforces. *)
ParseContract(doc) ==
    IF /\ doc.suffix \in {"yaml", "yml", "json"}
       /\ doc.keys # {} /\ doc.keys \subseteq TopKeys
       /\ doc.version = 1 /\ ~Blank(doc.target) /\ doc.goal # None /\ LaneOk(doc.lane)
       /\ BudgetOk(doc.budget) /\ GateOk(doc.gate) /\ EvidenceOk(doc.evidence)
    THEN [target |-> doc.target, goal |-> doc.goal, lane |-> doc.lane,
          budget |-> ParseBudget(doc.budget), require_human_confirm |-> TRUE,
          evidence |-> ParseEvidence(doc.evidence)]
    ELSE None

(* The evidence that is required of a run and not in its proof pack. *)
MissingEvidence(contract, carried) ==
    {name \in contract.evidence : ~(EvidenceFields[name] \subseteq carried)}
=============================================================================
