----------------------------- MODULE MCGradings -----------------------------
(* Values for TLC: every combination of what a judge looks at, up to two files,
   units, rollouts and items, and the paths, links and hosts that tell the
   readers' conditions apart. *)
EXTENDS Gradings

UpTo(n, S) == UNION {[1..k -> S] : k \in 0..n}

MCFiles == {<<"w", "tool", "judge">>, <<"reg", "adapter">>, <<"op">>, <<"other">>}
MCLinks == (<<"reg", "linked">> :> <<"w", "tool", "judge">>) @@ (<<"link">> :> <<"w", "c">>)
           @@ (<<"way">> :> <<"reg">>)
MCGradeRank == [A |-> 5, B |-> 4, C |-> 3, D |-> 2, E |-> 1, F |-> 0]
MCDefaultBudget == [target_grade |-> 5, max_iterations |-> 10]

MCSkills ==
    {[skill |-> s, readable |-> r, loadable |-> l, name |-> n, described |-> d, refs |-> refs, unsafe |-> u] :
        s \in BOOLEAN, r \in BOOLEAN, l \in BOOLEAN, n \in {"none", "dir", "other"}, d \in BOOLEAN,
        refs \in UpTo(2, {"missing", "text", "compiles", "broken"}), u \in BOOLEAN}
MCTexts == {"plain", "missing", "unsafe"}
MCSummaries == {[hubs |-> h, edges |-> e] : h \in UpTo(2, MCTexts), e \in {<<>>, <<"missing">>}}
MCSpecs ==
    {[file |-> "text", blank |-> FALSE, problem |-> p, reqs |-> p, blocks |-> b,
      tests |-> t \/ \E k \in DOMAIN b : b[k].tested,
      unitRefs |-> refs \cup {b[k].id : k \in DOMAIN b}, rDefs |-> d, rRefs |-> d \cup r,
      scope |-> s, cited |-> c] :
        p \in BOOLEAN, b \in UpTo(2, [id : {1, 2}, tested : BOOLEAN]), t \in BOOLEAN,
        refs \in {{}, {2}}, d \in {{}, {1}}, r \in {{}, {2}}, s \in BOOLEAN, c \in BOOLEAN}
    \cup {[Scaffold EXCEPT !.file = f, !.blank = b] :
            f \in {"text", "gone", "bytes"}, b \in BOOLEAN}
MCRollouts ==
    UpTo(2, [reward : {0, 30, 95, NaN}, cost : [{"velocity", "collision"} -> {0, 1, NaN}]]) \ {<<>>}
MCDraws == {<<1, 1, 3, 2, 4>>, <<2, 1, 1>>, <<>>}
MCReports ==
    [shape : {"ok", "list"}, safety_blocker : {None, TRUE, FALSE}, safety_gate_failed : {None, TRUE, FALSE},
     safety_capped : {None, TRUE}, passed : {None, TRUE, FALSE}, grade : {5}, score : {90},
     failing : {None, {}, {"t"}}, failures : {None, {}}, lost : {{"t", "u"}},
     dims : {<<>>, <<<<"D1", 5, 10>>, <<"D2", 1, 4>>, <<"D3", 0, 0>>, <<"D4", 9, 10>>, <<"D5", 1, 2>>>>}]
    \cup {None}
MCProbes == UNION {[1..k -> {Verdict(5, 90, TRUE), Verdict(5, 92, TRUE), Verdict(4, 89, TRUE)}] : k \in 2..3}
MCCards == UpTo(2, [options : {None, {}, {1}, {1, 2}}, default : {None, 1, 2}, known : BOOLEAN])
MCBriefs == [recurring : BOOLEAN, upstream : BOOLEAN, reused : BOOLEAN, persistent : BOOLEAN,
             feedback : BOOLEAN, outcome : {None, "first", "accepted", "rolled_back", "reversed"}]
MCFronts == {None, <<>>, <<<<"name", "x">>, <<"description", "|">>, <<"", "a">>, <<"", "">>, <<"", "b">>>>,
             <<<<"description", "a">>, <<"-", "a">>>>, <<<<"description", "">>, <<"", "a">>>>,
             <<<<"description", "|">>, <<"name", "y">>, <<"", "b">>>>}
MCLibraries == UpTo(2, [readable : BOOLEAN, dir : {"x"}, front : MCFronts, body : {10}])
MCItems == UpTo(2, [expect : {None, "absent"}, probe : {"found", "missing", "error"}])
MCLegs == [run_id : {None, 1, 2}, iterations : 1..2, converged : BOOLEAN]
MCOutcomes == UpTo(2, [spec : 1..2, tool : 3..4])

Target(name, url) == [name |-> name, text |-> "plain", exists |-> FALSE, dir |-> FALSE, skill |-> FALSE,
                      suffix |-> "none", url |-> url]
Entry(key, deps) == [key : {key}, target : {Target("t", "git"), Target("u", "http"), Target("v", "none")},
                     goal : {None, "own"}, lane : {None, "codebase"}, deps : deps]
MCFleetSpecs ==
    UNION {[1..1 -> Entry("a", {{}, {"b"}})],
           {<<x, y>> : x \in Entry("a", {{}}), y \in Entry("b", {{"a"}}) \cup Entry("a", {{}})}}
MCHosts == [bins : {{"cli-anything", "cli-judge"}, {"cli-hub", "cli-judge", "printing-press"}},
            plugin : BOOLEAN, assumed : {{}}]

Name(abs, path) == [abs |-> abs, path |-> path]
MCAdapters ==
    {[gen |-> [tool |-> t, manifest |-> [judgeAdapter |-> j, id |-> i]], override |-> o, registry |-> r,
      dev |-> d[1], heldout |-> d[2]] :
        t \in {<<"w", "tool">>, <<"other">>},
        j \in {None, Name(FALSE, <<"adapter">>), Name(FALSE, <<"linked">>), Name(TRUE, <<"other">>),
               Name(FALSE, <<"..", "other">>), Name(FALSE, <<"..", "w", "tool", "judge">>)},
        i \in {None, Name(FALSE, <<"adapter">>)}, o \in {None, <<"op">>, <<"way", "linked">>, <<"gone">>},
        r \in {None, <<"reg">>, <<"way">>}, d \in {<<None, None>>, <<{1}, {1}>>, <<{1}, {2}>>}}

MCInstalls == [catalog : {"cli-anything", "pypi"}, kind : {"pip_git_subdir", "pp_binary"},
               sha : {"full", "tag"}, name : {"plain", "odd"}, subdir : {None, "plain", "odd"},
               required : {{}, {"TOKEN"}}]
Variable(name, secret, infra) == [name |-> name, secret |-> secret, infra |-> infra]
MCEnvironments == SUBSET {Variable("TOKEN", TRUE, FALSE), Variable("OTHER_KEY", TRUE, FALSE),
                          Variable("PATH", FALSE, TRUE), Variable("EDITOR", FALSE, FALSE)}
=============================================================================
