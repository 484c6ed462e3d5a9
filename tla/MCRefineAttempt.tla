--------------------------- MODULE MCRefineAttempt ---------------------------
(* Values for TLC: an agent that emits a good and a malformed card or none, one
   provider with a key besides the local one, and reports of every kind. *)
EXTENDS RefineAttempt

MCFiles == {}
MCLinks == <<>>
MCGradeRank == [A |-> 5, B |-> 4, C |-> 3, D |-> 2, E |-> 1, F |-> 0]
MCDefaultBudget == [target_grade |-> 5, max_iterations |-> 10]

Card(options) == [options |-> options, default |-> 1, known |-> TRUE]
MCEmissions == {<<>>, <<Card({1, 2})>>, <<Card({2}), Card({1})>>}
MCUsages == {None, 1, 2}
MCProviderKeys == {"groq"}
Report(shape, blocker) ==
    [shape |-> shape, safety_blocker |-> blocker, safety_gate_failed |-> None, safety_capped |-> None,
     passed |-> None, grade |-> 4, score |-> 80]
MCToolReports == {Report("ok", FALSE), Report("ok", TRUE), Report("list", None)}
=============================================================================
