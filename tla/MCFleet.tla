------------------------------ MODULE MCFleet ------------------------------
(* Instances of Fleet for TLC. *)
EXTENDS FleetRefinement

\* Every dependency graph over three items, cyclic ones included, and one
\* with an unknown key.
AllGraphs == [1..3 -> SUBSET (1..3)] \cup {[i \in 1..3 |-> IF i = 2 THEN {1, 0} ELSE {}]}

\* A chain, and a join.
TalkGraphs == { [i \in 1..3 |-> {i - 1} \ {0}], [i \in 1..3 |-> IF i = 3 THEN {1, 2} ELSE {}] }

=============================================================================
