---------------------------- MODULE MCRunRecords ----------------------------
(* Values for TLC: a registry with an adapter and a link into the tool, a host
   with everything installed, the calls worth telling apart and calls that are
   refused, and a corpus with two spellings of one note. *)
EXTENDS RunRecords

MCFiles == {<<"w", "tool", "judge">>, <<"reg", "adapter">>, <<"op">>}
MCLinks == (<<"reg", "linked">> :> <<"w", "tool", "judge">>)
MCGradeRank == [A |-> 5, B |-> 4, C |-> 3, D |-> 2, E |-> 1, F |-> 0]
MCDefaultBudget ==
    [target_grade |-> 5, target_score |-> None, max_iterations |-> 2, plateau_patience |-> 3,
     plateau_pivots |-> 1, token_budget |-> None, max_wall_seconds |-> None,
     max_tool_retries |-> 2, compression_interval |-> 3, min_score_gain |-> 0]

Verdict(grade, safe, fails, cost) == [grade |-> grade, safe |-> safe, fails |-> fails, cost |-> cost]
MCVerdicts == {Verdict(3, TRUE, {"f"}, None), Verdict(5, TRUE, {}, 1), Verdict(0, FALSE, {"f"}, None),
               Verdict(1, TRUE, {}, None)}

Repo == [name |-> "repo", text |-> "plain", exists |-> TRUE, dir |-> TRUE, skill |-> FALSE,
         suffix |-> "none", url |-> "none"]
Generated(adapter, ok) ==
    [tool |-> <<"w", "tool">>, label |-> "w/tool", ok |-> ok,
     manifest |-> [judgeAdapter |-> [abs |-> FALSE, path |-> <<adapter>>], id |-> None]]
Installed == [bins |-> {"cli-anything", "cli-judge"}, plugin |-> TRUE, assumed |-> {}]
Doc == [suffix |-> "yaml", keys |-> {"version", "target", "goal", "budget"}, version |-> 1,
        target |-> Repo, goal |-> "goal", lane |-> None,
        budget |-> [target_grade |-> "C", max_iterations |-> [kind |-> "int", n |-> 2]],
        gate |-> <<>>, evidence |-> <<>>]

Run == [kind |-> "run", target |-> Repo, goal |-> "goal", lane |-> None, contract |-> None,
        maxIterations |-> None, scheduled |-> FALSE, confirmed |-> TRUE, gate |-> TRUE, ci |-> FALSE,
        host |-> Installed, gen |-> Generated("adapter", TRUE), override |-> None,
        registry |-> <<"reg">>, workspace |-> <<"w">>, refiner |-> "claude", judge |-> "CLIJudge",
        runnable |-> TRUE, adoption |-> None, missingEnv |-> {}]
Proof == [Run EXCEPT !.kind = "proof", !.lane = "codebase", !.override = <<"op">>, !.confirmed = FALSE,
                     !.gen.tool = <<"w", ".pkg">>,
                     !.adoption = [catalog |-> "cli-anything", kind |-> "pip_git_subdir",
                                   sha |-> "full", name |-> "plain"]]
Loop == [Run EXCEPT !.kind = "loop", !.gen.ok = FALSE]

MCRequests ==
    { [Run EXCEPT !.target = None, !.goal = None, !.contract = Doc],
      [Run EXCEPT !.scheduled = TRUE, !.confirmed = FALSE, !.ci = TRUE],
      Proof, Loop,
      \* refused: pre-confirmed, an adapter that leads into the tool, a nan, a flag and a contract
      [Run EXCEPT !.scheduled = TRUE], [Run EXCEPT !.gen = Generated("linked", TRUE)],
      [Run EXCEPT !.target = None, !.goal = None,
                  !.contract = [Doc EXCEPT !.budget.max_iterations = [kind |-> "nan", n |-> 0]]],
      [Run EXCEPT !.goal = None, !.contract = Doc] }

Note(target, note) == [target |-> target, lane |-> "codebase", note |-> note, ref |-> None, delta |-> 1]
MCCorpus == <<Note("w/tool", "note"), Note("w/tool", "note;")>>
MCSanitized == [n \in {"note", "note;"} |-> "note"]
=============================================================================
