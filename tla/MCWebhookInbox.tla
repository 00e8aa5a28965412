--------------------------- MODULE MCWebhookInbox ---------------------------
(* One delivery answered before the work and one stored before it, and two sweeps. *)
EXTENDS WebhookInbox

CONSTANTS d1, d2, s1, s2

Two    == {d1, d2}
First  == {d1}
Second == {d2}

TwoSweeps == {s1, s2}
=============================================================================
