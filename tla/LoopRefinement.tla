--------------------------- MODULE LoopRefinement ---------------------------
(* The loop without a compression pass implements GradedTool: its verdict   *)
(* is the kept row's, its status that of the runs row.                      *)
EXTENDS LoopController

CONSTANT NoReport
ASSUME NoReportAssumption == NoReport \notin Reports

Graded == INSTANCE GradedTool WITH
    Safe      <- {r \in Reports : r.safe},
    Reaching  <- {r \in Reports : ReachedTarget(r)},
    Improving <- {p \in Reports \X Reports : IsImprovement(p[1], p[2])},
    Ungraded  <- NoReport,
    best      <- IF kept = 0 THEN NoReport ELSE rows[kept].rep,
    status    <- run

(* The verdict that run() stands by changes only for a better safe one, and
   the run ends once, as converged only at target: LoopController.run keeps
   the promise of its module docstring, across rejections and retries. *)
KeepsPromise == Graded!PromiseSpec
=============================================================================
