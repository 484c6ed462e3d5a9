-------------------------- MODULE MCLoopController --------------------------
(* Instances of LoopController for TLC: small sets of judge reports.        *)
EXTENDS LoopRefinement

Report(g, s, ok, f, r) == [grade |-> g, score |-> s, safe |-> ok, fails |-> f, ranked |-> r]

(* A letter ladder: two same-letter scores inside the noise band, one beyond
   it, a better letter with a lower score, the target and an unsafe report. *)
LadderReports ==
    { Report(2, 0, TRUE, {}, <<"d1", "d2">>), Report(2, 1, TRUE, {}, <<"d1", "d2">>),
      Report(2, 3, TRUE, {}, <<"d2", "d1">>), Report(3, 2, TRUE, {}, <<"d1", "d2">>),
      Report(5, 9, TRUE, {}, <<"d1", "d2">>), Report(5, 9, FALSE, {}, <<"d1", "d2">>) }

(* Grades and fixtures, no dimensions. *)
FixtureReports ==
    { Report(2, 0, TRUE, {"f1"}, <<>>), Report(3, 0, TRUE, {"f1"}, <<>>),
      Report(3, 0, TRUE, {"f2"}, <<>>), Report(5, 0, TRUE, {}, <<>>) }

(* Three letters and an unsafe report, nothing else. *)
GradeReports ==
    { Report(g, 0, TRUE, {}, <<"d1", "d2">>) : g \in {1, 2, 3} }
        \cup { Report(-1, 0, FALSE, {}, <<>>) }

(* Scores in and beyond the noise band of 1, the target, an unsafe report
   beyond the target, and a letter that contradicts its score. *)
ScoreReports ==
    { Report(3, 1, TRUE, {}, <<"d1", "d2">>), Report(3, 2, TRUE, {}, <<"d1", "d2">>),
      Report(1, 4, TRUE, {}, <<"d2", "d1">>), Report(5, 10, TRUE, {}, <<>>),
      Report(5, 11, FALSE, {}, <<>>) }
=============================================================================
