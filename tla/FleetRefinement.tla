-------------------------- MODULE FleetRefinement --------------------------
(***************************************************************************)
(* The fleet implements the workflow: the items in work are those whose    *)
(* row says running, the ones done those whose row says converged.         *)
(***************************************************************************)
EXTENDS Fleet

Running == {i \in Items : status[i] = "running"}
Converged == {i \in Items : status[i] = "converged"}

W == INSTANCE Workflow WITH working <- Running, done <- Converged

(* The coordinator's waves and the re-briefs keep the order of the graph,
   give an item to one worker at a time and never undo what has converged. *)
ImplementsWorkflow == W!WorkflowSpec
=============================================================================
