--------------------------- MODULE MCBackfillLock ---------------------------
(* Two runs of one job in different processes, a second run of the first one's
   process, and a workspace-wide run. *)
EXTENDS BackfillLock

CONSTANTS a1, a2, b1, w1, jobA, wide, hostA, hostB, hostW, none

Jobs == {jobA, wide}
RunJobs == [r \in Run |-> IF r = w1 THEN wide ELSE jobA]
Holders == [r \in Run |-> CASE r = b1 -> hostB [] r = w1 -> hostW [] OTHER -> hostA]
Leases == [r \in Run |-> IF r = w1 THEN 2 ELSE 1]

Everyone == {a1, a2, b1, w1}
TwoHolders == {a1, b1, w1}
NoRuns == {}
Renewers == {a1, w1}
=============================================================================
