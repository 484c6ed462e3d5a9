----------------------------- MODULE GradedTool -----------------------------
(***************************************************************************)
(* What the loop promises of a tool, whatever happens inside an iteration: *)
(* the verdict it stands by only ever changes for a better, safe one, the  *)
(* run ends once, it ends as converged only on a safe verdict at target,   *)
(* and nothing changes after it has ended.                                 *)
(***************************************************************************)
CONSTANTS Reports,    \* what the judge may answer
          Safe,       \* the reports that pass the safety gate
          Reaching,   \* those at target
          Improving,  \* pairs <<old, new>> in which new improves on old
          Ungraded    \* before the first judgement

VARIABLES best, status
promised == <<best, status>>

PromiseInit == best = Ungraded /\ status = "running"

Baseline == best = Ungraded /\ best' \in Reports /\ UNCHANGED status

Improve == /\ status = "running" /\ best # Ungraded
           /\ best' \in Safe /\ <<best, best'>> \in Improving
           /\ UNCHANGED status

Ship == status = "running" /\ best \in Safe \cap Reaching
        /\ status' = "converged" /\ UNCHANGED best

GiveUp == status = "running" /\ best # Ungraded
          /\ status' \in {"stopped", "blocked_safety"} /\ UNCHANGED best

PromiseNext == Baseline \/ Improve \/ Ship \/ GiveUp
PromiseSpec == PromiseInit /\ [][PromiseNext]_promised
=============================================================================
