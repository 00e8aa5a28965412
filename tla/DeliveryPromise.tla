-------------------------- MODULE DeliveryPromise --------------------------
(***************************************************************************)
(* What an outbound webhook promises about each of its events, whoever     *)
(* sends it and whatever fails: it reaches the receiver only after it was  *)
(* stored, it counts as delivered only after the receiver took it, and     *)
(* delivered, dead and deleted are final.  It may arrive more than once.   *)
(***************************************************************************)
CONSTANTS Row   \* an event for one subscription

VARIABLES
  status,    \* [Row -> where the event is]
  received   \* rows the receiver has taken at least once

vars == <<status, received>>

Init == /\ status = [r \in Row |-> "none"]
        /\ received = {}

Store(R) ==
  /\ \A r \in R : status[r] = "none"
  /\ status' = [r \in Row |-> IF r \in R THEN "pending" ELSE status[r]]
  /\ UNCHANGED received

Take(r) ==
  /\ status[r] # "none"
  /\ received' = received \cup {r}
  /\ UNCHANGED status

Deliver(r) ==
  /\ status[r] = "pending"
  /\ r \in received
  /\ status' = [status EXCEPT ![r] = "delivered"]
  /\ UNCHANGED received

Bury(r) ==
  /\ status[r] = "pending"
  /\ status' = [status EXCEPT ![r] = "dead"]
  /\ UNCHANGED received

Remove(R) ==
  /\ status' = [r \in Row |-> IF r \in R THEN "gone" ELSE status[r]]
  /\ UNCHANGED received

Next ==
  \/ \E R \in SUBSET Row : Store(R) \/ Remove(R)
  \/ \E r \in Row : Take(r) \/ Deliver(r) \/ Bury(r)

Spec == Init /\ [][Next]_vars
=============================================================================
