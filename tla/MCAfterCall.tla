---------------------------- MODULE MCAfterCall ----------------------------
EXTENDS AfterCall

CONSTANTS u1, u2, m1, m2, q1

OneSeat  == {u1}
TwoSeats == {u1, u2}
OneRecording == {m1}
TwoRecordings == {m1, m2}
Requests == {q1}
=============================================================================
