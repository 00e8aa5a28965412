--------------------------- MODULE MCBackfillJobs ---------------------------
(* A source or two, two people, one of them imported, and one worker process. *)
EXTENDS BackfillJobs

CONSTANTS s1, s2, c1, p1, a1, a2, w1

Sources   == {s1, s2}
OneSource == {s1}
Clicks    == {c1}
Payments  == {p1}
People    == {a1, a2}
One       == {a1}
Workers   == {w1}
=============================================================================
