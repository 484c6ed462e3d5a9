------------------------------ MODULE Workflow ------------------------------
(***************************************************************************)
(* What the fleet promises, whoever runs the items and however often: an   *)
(* item is worked on by one worker at a time, never before everything it   *)
(* depends on is done, and what is done stays done.                        *)
(***************************************************************************)
CONSTANT Items, Graphs
VARIABLES deps, working, done

Init == deps \in Graphs /\ working = {} /\ done = {}

Begin(i) ==
    /\ i \notin working \cup done /\ deps[i] \subseteq done
    /\ working' = working \cup {i} /\ UNCHANGED <<deps, done>>

Succeed(i) ==
    /\ i \in working
    /\ working' = working \ {i} /\ done' = done \cup {i} /\ UNCHANGED deps

Fail(i) == i \in working /\ working' = working \ {i} /\ UNCHANGED <<deps, done>>

Next == \E i \in Items : Begin(i) \/ Succeed(i) \/ Fail(i)

WorkflowSpec == Init /\ [][Next]_<<deps, working, done>>
=============================================================================
