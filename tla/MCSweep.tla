------------------------------- MODULE MCSweep -------------------------------
(* Values for TLC: two targets from a corpus of three, a menu size below and
   one above the corpus, one seed; a reply that is NONE and one that mentions
   two tools in passing. *)
EXTENDS Sweep

MCTargets == <<"s1", "s2">>
MCN_SWEEP == <<2, 4>>
MCSEEDS   == <<11>>
MCReplies == {[token |-> "NONE", mentions |-> {}], [token |-> None, mentions |-> {"target", "other"}]}
MCKeys    == {{"gemini", "anthropic", "groq"}, {"gemini"}}
=============================================================================
