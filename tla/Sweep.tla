-------------------------------- MODULE Sweep --------------------------------
(***************************************************************************)
(* The trigger-reliability experiment, research/attention-budget/          *)
(* trigger_reliability.py: probe requests are generated for some skills, a *)
(* subject model picks from menus of growing size, and every reply is      *)
(* cached on disk under its exact prompt, so that a later run finds it.    *)
(* What is cached is the raw text: each run reads a pick from it again.    *)
(* Providers refuse, throttle and fail; the process dies anywhere, also    *)
(* between a call and its cache file or half-way through writing one.      *)
(*                                                                         *)
(* A request is who wrote it (the text follows from the target and the     *)
(* cached reply).  A menu follows from its size, the seed, the place of   *)
(* the target among the probes, which fixes what the generator of random   *)
(* numbers has already drawn, and the target itself.  A reply to a menu is *)
(* [token, mentions]: token what its last or else its first word names, the *)
(* "target", an "other" tool of the menu, "NONE" or nothing, and mentions   *)
(* which of the tools occur anywhere in it.                                 *)
(***************************************************************************)
EXTENDS SequencesExt

CONSTANTS None,
          Targets,    \* the sampled skills, in order
          Names,      \* size of the corpus they are sampled from
          N_SWEEP, SEEDS, MIN_TRIALS,
          Replies,    \* what the subject may reply to a menu
          Keys,       \* sets of providers a run may have keys for
          MaxRuns     \* bound: runs of the script

ASSUME ListsAssumption ==
    /\ Targets \in Seq(Range(Targets)) /\ N_SWEEP \in Seq(Nat) /\ SEEDS \in Seq(Nat)
    /\ Names \in Nat /\ MIN_TRIALS \in Nat /\ MaxRuns \in Nat
ASSUME SizesAssumption == \A i, j \in DOMAIN N_SWEEP : N_SWEEP[i] = N_SWEEP[j] => i = j
ASSUME RepliesAssumption ==
    /\ None \notin Replies /\ None # "request"
    /\ \A reply \in Replies : /\ reply.token \in {None, "target", "other", "NONE"}
                              /\ reply.mentions \subseteq {"target", "other"}

VARIABLES phase,    \* "idle", "probes", "sweep", "done", or "dead"
          runs, keys,
          probes,   \* sequence of [target, by] in the order they were made
          asked,    \* how many of the targets, then of the trials, are behind
          used,     \* GENERATOR_USED
          results, trials,
          cache,    \* prompts to replies; None is a file that was cut off
          paid,     \* history: per prompt, how many replies came from a provider
          lost,     \* history: how many of them died with the process
          published \* results.json

run  == <<keys, probes, asked, used, results, trials>>
vars == <<phase, runs, run, cache, paid, lost, published>>

Outcomes == {"hit", "wrong", "none", "unparsed", "error"}
NoResults == [n \in Range(N_SWEEP) |-> [o \in Outcomes |-> 0]]

Init ==
    /\ phase = "idle" /\ runs = 0 /\ keys = {}
    /\ probes = <<>> /\ asked = 0 /\ used = {} /\ results = NoResults /\ trials = <<>>
    /\ cache = <<>> /\ paid = <<>> /\ lost = <<>> /\ published = None

Start ==
    /\ phase \in {"idle", "done", "dead"} /\ runs < MaxRuns
    /\ phase' = "probes" /\ runs' = runs + 1 /\ keys' \in Keys
    /\ probes' = <<>> /\ asked' = 0 /\ used' = {} /\ results' = NoResults /\ trials' = <<>>
    /\ UNCHANGED <<cache, paid, lost, published>>

-----------------------------------------------------------------------------
(* Calls.  A call is the sequence of what its attempts meet: "ok",         *)
(* "limited" or "failed"; _post turns every failure into one of the two.   *)

(* with_backoff: only a rate limit is waited out, and not after the last try. *)
WithBackoff(attempts, tries) ==
    LET k == SelectInSeq(attempts, LAMBDA a : a # "limited")
    IN  IF k \in 1..tries THEN attempts[k] ELSE "limited"
Attempts == {<<"ok">>, <<"failed">>, <<"limited", "ok">>, <<"limited", "limited", "ok">>}

Cached(prompt) == prompt \in DOMAIN cache
Torn(prompt)   == Cached(prompt) /\ cache[prompt] = None
Put(f, prompt, value) == [p \in DOMAIN f \cup {prompt} |-> IF p = prompt THEN value ELSE f[p]]
Count(f, prompt) == IF prompt \in DOMAIN f THEN f[prompt] ELSE 0
Another(f, prompt) == Put(f, prompt, Count(f, prompt) + 1)

\* Mutant of Answered: what is on disk is asked for again.
AnsweredAgain(prompt, tries, reply) ==
    /\ \E attempts \in Attempts : WithBackoff(attempts, tries) = "ok"
    /\ cache' = Put(cache, prompt, reply) /\ paid' = Another(paid, prompt)
    /\ UNCHANGED lost

(* A prompt is answered from disk, or by the provider and then put there. *)
Answered(prompt, tries, reply) ==
    /\ IF Cached(prompt) THEN reply = cache[prompt] /\ UNCHANGED <<cache, paid>>
       ELSE /\ \E attempts \in Attempts : WithBackoff(attempts, tries) = "ok"
            /\ cache' = Put(cache, prompt, reply) /\ paid' = Another(paid, prompt)
    /\ UNCHANGED lost

(* A call that ends in a ProviderError; what is on disk cannot. *)
Unanswered(prompt, tries) ==
    ~Cached(prompt) /\ \E attempts \in Attempts : WithBackoff(attempts, tries) # "ok"

Gen(target)  == <<"gen", target>>
Gen2(target) == <<"gen2", target>>

-----------------------------------------------------------------------------
(* Probes.                                                                 *)

NextTarget == Targets[asked + 1]
Making == phase = "probes" /\ asked < Len(Targets)
Made(by) == probes' = Append(probes, [target |-> NextTarget, by |-> by])

GeminiAnswers ==
    /\ Making /\ "gemini" \in keys /\ ~Torn(Gen(NextTarget))
    /\ Answered(Gen(NextTarget), 2, "request")
    /\ Made("gen") /\ asked' = asked + 1
    /\ UNCHANGED <<phase, runs, keys, used, results, trials, published>>

GeminiOut == "gemini" \notin keys \/ Unanswered(Gen(NextTarget), 2)

(* The fallback; it is noted when it is called, not when it is found on disk. *)
ClaudeAnswers ==
    /\ Making /\ GeminiOut /\ "anthropic" \in keys /\ ~Torn(Gen2(NextTarget))
    /\ Answered(Gen2(NextTarget), 7, "request")
    /\ used' = IF Cached(Gen2(NextTarget)) THEN used ELSE {"claude"}
    /\ Made("gen2") /\ asked' = asked + 1
    /\ UNCHANGED <<phase, runs, keys, results, trials, published>>

(* No generator answers: the target goes without a probe. *)
NoProbe ==
    /\ Making /\ GeminiOut
    /\ "anthropic" \notin keys \/ Unanswered(Gen2(NextTarget), 7)
    /\ asked' = asked + 1
    /\ UNCHANGED <<phase, runs, keys, probes, used, results, trials, cache, paid, lost, published>>

(* Without probes the run refuses to report a number. *)
ProbesReady ==
    /\ phase = "probes" /\ asked = Len(Targets)
    /\ phase' = IF probes = <<>> THEN "done" ELSE "sweep"
    /\ asked' = 0
    /\ UNCHANGED <<runs, keys, probes, used, results, trials, cache, paid, lost, published>>

-----------------------------------------------------------------------------
(* Trials, in the order of _sweep's three loops.                           *)

Smaller(a, b) == IF a < b THEN a ELSE b
All == Len(N_SWEEP) * Len(SEEDS) * Len(probes)
Trial(k) ==
    LET n     == N_SWEEP[k \div (Len(SEEDS) * Len(probes)) + 1]
        place == (k % Len(probes)) + 1
    IN  [n |-> n, cap |-> Smaller(n, Names), seed |-> SEEDS[((k \div Len(probes)) % Len(SEEDS)) + 1],
         place |-> place, target |-> probes[place].target, by |-> probes[place].by]
Menu(t) == <<"subject", t.cap, t.seed, t.place, t.target, t.by>>

(* parse_pick and the outcome of what it returns: the last word decides, then the
   first; else some tool that is mentioned, in the order of a set of strings,
   which is another one in every process. *)
Outcome(pick) == CASE pick = "target" -> "hit" [] pick = "other" -> "wrong" [] pick = "NONE" -> "none"
Scores(reply) ==
    IF reply.token # None THEN {Outcome(reply.token)}
    ELSE IF reply.mentions = {} THEN {"unparsed"} ELSE {Outcome(pick) : pick \in reply.mentions}

\* Mutant of Score: a call that failed is a miss.
ScoreMissing(outcome) == IF outcome = "error" THEN "wrong" ELSE outcome
Score(outcome) == outcome

Record(t, outcome) ==
    /\ results' = [results EXCEPT ![t.n][Score(outcome)] = @ + 1]
    /\ trials' = Append(trials, [of |-> Menu(t), n |-> t.n, outcome |-> outcome])
    /\ asked' = asked + 1
    /\ UNCHANGED <<phase, runs, keys, probes, used, published>>

Sweeping == phase = "sweep" /\ asked < All

(* Within one process the same menu is walked in the same order. *)
AsBefore(menu, outcome) ==
    \A k \in DOMAIN trials : trials[k].of = menu => trials[k].outcome \in {outcome, "error"}

SubjectAnswers ==
    /\ Sweeping /\ "groq" \in keys /\ ~Torn(Menu(Trial(asked)))
    /\ \E reply \in Replies :
          /\ Answered(Menu(Trial(asked)), 7, reply)
          /\ \E outcome \in Scores(reply) :
                AsBefore(Menu(Trial(asked)), outcome) /\ Record(Trial(asked), outcome)

(* Without its key the subject is not even looked up on disk. *)
SubjectFails ==
    /\ Sweeping
    /\ "groq" \notin keys \/ Unanswered(Menu(Trial(asked)), 7)
    /\ Record(Trial(asked), "error") /\ UNCHANGED <<cache, paid, lost>>

Usable(d) == d["hit"] + d["wrong"] + d["none"] + d["unparsed"]
Accuracy(d) == IF Usable(d) >= MIN_TRIALS THEN <<d["hit"], Usable(d)>> ELSE None

Publish ==
    /\ phase = "sweep" /\ asked = All
    /\ phase' = "done"
    /\ published' = [by_n |-> results, accuracy |-> [n \in Range(N_SWEEP) |-> Accuracy(results[n])],
                     trials |-> trials, probes |-> probes, fallbacks |-> used]
    /\ UNCHANGED <<runs, run, cache, paid, lost>>

-----------------------------------------------------------------------------
(* Failures of the process.                                                *)

Dies == phase' = "dead" /\ UNCHANGED <<runs, run, published>>

Kill == phase \in {"probes", "sweep"} /\ Dies /\ UNCHANGED <<cache, paid, lost>>

(* The prompts that are looked up next. *)
Wanted ==
    IF Making THEN (IF "gemini" \in keys THEN {Gen(NextTarget)} ELSE {})
                   \cup (IF GeminiOut /\ "anthropic" \in keys THEN {Gen2(NextTarget)} ELSE {})
    ELSE IF Sweeping /\ "groq" \in keys THEN {Menu(Trial(asked))} ELSE {}

(* The reply has come, and the process dies before or while it is written: killed,
   out of disk, or by a reply without the fields that are looked for. *)
KillWriting ==
    \E prompt \in Wanted :
        /\ ~Cached(prompt) /\ Dies
        /\ paid' = Another(paid, prompt) /\ lost' = Another(lost, prompt)
        /\ cache' = Put(cache, prompt, None) \/ UNCHANGED cache

(* A torn file is no JSON: reading it raises what no handler catches. *)
Choke == (\E prompt \in Wanted : Torn(prompt)) /\ Dies /\ UNCHANGED <<cache, paid, lost>>

(* A torn file can only be removed by hand. *)
Repair == \E prompt \in DOMAIN cache :
    /\ phase \in {"done", "dead"} /\ Torn(prompt)
    /\ cache' = Restrict(cache, DOMAIN cache \ {prompt})
    /\ UNCHANGED <<phase, runs, run, paid, lost, published>>

Next ==
    \/ Start \/ GeminiAnswers \/ ClaudeAnswers \/ NoProbe \/ ProbesReady \/ SubjectAnswers
    \/ SubjectFails \/ Publish \/ Kill \/ KillWriting \/ Choke \/ Repair

Spec == Init /\ [][Next]_vars

-----------------------------------------------------------------------------
(* Properties.                                                             *)

(* "A failed API call is recorded as an error and excluded from the
   denominator -- never silently scored as a miss" (trigger_reliability.py:39):
   what counts in a tally is, one for one, what can be read from the
   replies on disk to this run's menus, and a rate is only given over enough of them. *)
Tally(rows, n, outcomes) == Cardinality({k \in DOMAIN rows : rows[k].n = n /\ rows[k].outcome \in outcomes})
TalliesAreAnswers ==
    /\ \A n \in Range(N_SWEEP), o \in Outcomes : results[n][o] = Tally(trials, n, {o})
    /\ \A k \in DOMAIN trials : trials[k].outcome # "error" =>
          trials[k].of \in DOMAIN cache /\ trials[k].outcome \in Scores(cache[trials[k].of])
    /\ published # None => \A n \in Range(N_SWEEP) :
          /\ Tally(published.trials, n, Outcomes) = Len(SEEDS) * Len(published.probes)
          /\ published.accuracy[n] # None =>
                published.accuracy[n][2] = Tally(published.trials, n, Outcomes \ {"error"})
                    /\ published.accuracy[n][2] >= MIN_TRIALS

(* "Every response is cached to disk keyed by its exact prompt, so a re-run is
   free and the numbers are reproducible rather than re-sampled" (:41), as far as
   it holds.  Every reply that came is on disk, whole, or died with the process
   before it was: none is paid for again but for one that was lost.  And two runs
   score a menu alike, crashes between them or not, unless its reply names the
   target and another tool and neither where a name is looked for. *)
RerunsAgree ==
    /\ \A prompt \in DOMAIN cache \cup DOMAIN paid :
          Count(paid, prompt) = Count(lost, prompt) + (IF Cached(prompt) /\ ~Torn(prompt) THEN 1 ELSE 0)
    /\ published # None => \A j \in DOMAIN published.trials, k \in DOMAIN trials :
          published.trials[j].of = trials[k].of =>
             \/ published.trials[j].outcome = trials[k].outcome
             \/ "error" \in {published.trials[j].outcome, trials[k].outcome}
             \/ /\ cache[trials[k].of].token = None
                /\ cache[trials[k].of].mentions = {"target", "other"}
=============================================================================
