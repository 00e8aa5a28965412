-------------------------- MODULE MCWebhookOutbox --------------------------
(* One event twice enqueued and one test send, for one subscription. *)
EXTENDS WebhookOutbox

CONSTANTS e1, t1, s1, p1, p2

OneEvent == {e1}
OneTest == {t1}
OneSub == {s1}
TwoProducers == {p1, p2}

AllEdits == {"pause", "delete", "lapse"}
=============================================================================
