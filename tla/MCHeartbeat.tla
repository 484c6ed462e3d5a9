---------------------------- MODULE MCHeartbeat ----------------------------
(* An instance of Heartbeat for TLC. *)
EXTENDS Heartbeat

\* Two targets, due again after one instant and after two; one call takes
\* them in turn, the other both at once.
TwoSlugs == <<"a", "b">>
TwoIntervals == <<1, 2>>
Widths == <<1, 2>>
=============================================================================
