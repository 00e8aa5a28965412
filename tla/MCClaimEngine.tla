--------------------------- MODULE MCClaimEngine ---------------------------
(* The instances of ClaimEngine that TLC checks: one or two targets, two
   values of which one is hot, two observed_at stamps.  One caller, s1, may be
   a settle and, between its batches or after it, a record request. *)
EXTENDS ClaimEngine

CONSTANTS a, b, none, s1, d1

OneTarget  == {1}
TwoTargets == {1, 2}
Values     == {a, b}
HotValues  == {a}
Stamps     == {1, 2}
NoOne      == {}
NoValueToo == {none}
NoEdits    == {}
OneSettler == {s1}
OneRetractor == {d1}
AssertOnly == {"assert"}
ClearOnly  == {"clear"}
AllFaults  == {"call", "delete", "fire", "crash"}
=============================================================================
