---------------------------- MODULE WebhookInbox ----------------------------
(***************************************************************************)
(* Inbound webhooks.  A handler works on a delivery inline; when that      *)
(* throws, enqueueForRetry (apps/worker/src/utils/webhookInbox.mjs) stores *)
(* a row of webhook_inbox, and processWebhookInbox (apps/worker/src/       *)
(* workers/webhookRetry.mjs), started every minute with nothing that keeps *)
(* two sweeps apart, works through the rows that are due and marks each    *)
(* processed, or pending with a backoff, or failed.                        *)
(*                                                                         *)
(* A row is named by its delivery.  The clock is abstract: a row whose     *)
(* next_attempt_at lies ahead is not due, and comes due by a step.  What   *)
(* a reprocessor does is one effect, stored when it runs to its end and    *)
(* perhaps also when it throws.                                            *)
(***************************************************************************)
EXTENDS Naturals, Sequences

CONSTANTS
  Delivery,     \* requests of senders
  AckFirst,     \* those of a source answered before the work (Fellow)
  Held,         \* those of a source stored before the work (holdDelivery)
  Sweep,        \* sweeps that run at the same time
  BatchSize,    \* BATCH_SIZE
  MaxAttempts,  \* MAX_ATTEMPTS
  MaxFault      \* bound: faults

ASSUME InboxAssumption ==
  /\ AckFirst \cup Held \subseteq Delivery /\ AckFirst \cap Held = {}
  /\ BatchSize \in Nat \ {0}
  /\ MaxAttempts \in Nat \ {0, 1}
  /\ MaxFault \in Nat

VARIABLES
  inbox,      \* [Delivery -> the row of webhook_inbox]
  queue,      \* the rows in order of received_at
  request,    \* [Delivery -> how far its request is]
  sweep,      \* [Sweep -> the rest of its batch as it was read, the outcome of the head]
  applied,    \* deliveries whose effect is stored
  faults,     \* faults so far
  (* history *)
  failures,   \* [Delivery -> runs of it that threw, counted up to MaxAttempts]
  forgotten   \* answered, then neither worked to the end nor stored

vars == <<inbox, queue, request, sweep, applied, faults, failures, forgotten>>

-----------------------------------------------------------------------------
NoRow   == [status |-> "none", attempts |-> 0, due |-> FALSE]
Resting == [pc |-> "idle", batch |-> <<>>, outcome |-> "none"]

Init ==
  /\ inbox = [d \in Delivery |-> NoRow]
  /\ queue = <<>>
  /\ request = [d \in Delivery |-> "new"]
  /\ sweep = [s \in Sweep |-> Resting]
  /\ applied = {}
  /\ faults = 0
  /\ failures = [d \in Delivery |-> 0]
  /\ forgotten = {}

Fault == faults < MaxFault /\ faults' = faults + 1

Pending(d) == inbox[d].status = "pending"

-----------------------------------------------------------------------------
(* The request *)

(* The handler starts.  A source of AckFirst has its answer by then. *)
Receive(d) ==
  /\ request[d] = "new" /\ d \notin Held
  /\ request' = [request EXCEPT ![d] = "working"]
  /\ UNCHANGED <<inbox, queue, sweep, applied, faults, failures, forgotten>>

Stored(d, attempts) ==
  /\ inbox' = [inbox EXCEPT ![d] = [status |-> "pending", attempts |-> attempts, due |-> FALSE]]
  /\ queue' = Append(queue, d)

(* holdDelivery: stored before the answer, or refused so that the sender delivers
   again. *)
Hold(d) ==
  /\ request[d] = "new" /\ d \in Held
  /\ \/ /\ Stored(d, 0)
        /\ request' = [request EXCEPT ![d] = "working"]
        /\ UNCHANGED faults
     \/ /\ Fault
        /\ request' = [request EXCEPT ![d] = "refused"]
        /\ UNCHANGED <<inbox, queue>>
  /\ UNCHANGED <<sweep, applied, failures, forgotten>>

(* What one run of a reprocessor does; it may throw after its effect. *)
Run(d, outcome, effect) ==
  /\ outcome = "ok" => effect
  /\ applied' = IF effect THEN applied \cup {d} ELSE applied
  /\ failures' = IF outcome = "throw" /\ failures[d] < MaxAttempts
                THEN [failures EXCEPT ![d] = @ + 1] ELSE failures

(* The inline run.  A held delivery that throws is left to the sweeps. *)
Handle(d) ==
  /\ request[d] = "working"
  /\ \E outcome \in {"ok", "throw"}, effect \in BOOLEAN :
       /\ Run(d, outcome, effect)
       /\ request' = [request EXCEPT ![d] =
            IF outcome = "ok" THEN IF d \in Held THEN "mark" ELSE "answered"
            ELSE IF d \in Held THEN "answered" ELSE "enqueue"]
  /\ UNCHANGED <<inbox, queue, sweep, faults, forgotten>>

(* enqueueForRetry; an insert that fails is logged, and the answer is still 200. *)
Enqueue(d) ==
  /\ request[d] = "enqueue"
  /\ \/ Stored(d, 1) /\ UNCHANGED <<faults, forgotten>>
     \/ /\ Fault
        /\ forgotten' = forgotten \cup {d}
        /\ UNCHANGED <<inbox, queue>>
  /\ request' = [request EXCEPT ![d] = "answered"]
  /\ UNCHANGED <<sweep, applied, failures>>

-----------------------------------------------------------------------------
(* What the end of a run writes, by id and without a look at the row *)

(* markProcessed *)
Processed(row) == [row EXCEPT !.status = "processed"]

(* markRetry: the attempts are those of the batch, not of the row. *)
RetriedLate(n) ==
  [status |-> IF n + 1 > MaxAttempts THEN "failed" ELSE "pending", attempts |-> n + 1, due |-> FALSE]
RetriedEarly(n) ==
  [status |-> IF n + 2 >= MaxAttempts THEN "failed" ELSE "pending", attempts |-> n + 1, due |-> FALSE]
RetriedFromOne(n) == [status |-> "pending", attempts |-> 1, due |-> FALSE]
Retried(n) ==
  [status |-> IF n + 1 >= MaxAttempts THEN "failed" ELSE "pending",
   attempts |-> n + 1, due |-> FALSE]

(* The errors of both updates are not looked at. *)
Write(d, row) ==
  \/ inbox' = [inbox EXCEPT ![d] = row] /\ UNCHANGED faults
  \/ Fault /\ UNCHANGED inbox

MarkHeld(d) ==
  /\ request[d] = "mark"
  /\ Write(d, Processed(inbox[d]))
  /\ request' = [request EXCEPT ![d] = "answered"]
  /\ UNCHANGED <<queue, sweep, applied, failures, forgotten>>

-----------------------------------------------------------------------------
(* processWebhookInbox *)

(* next_attempt_at passes. *)
ComeDue(d) ==
  /\ Pending(d) /\ ~inbox[d].due
  /\ inbox' = [inbox EXCEPT ![d].due = TRUE]
  /\ UNCHANGED <<queue, request, sweep, applied, faults, failures, forgotten>>

Due == {p \in DOMAIN queue : Pending(queue[p]) /\ inbox[queue[p]].due}

(* Where the rows that are due stand, oldest first, up to the batch's size. *)
Batches ==
  {ps \in UNION {[1..n -> Due] : n \in 1..BatchSize} :
     /\ \A i, j \in DOMAIN ps : i < j => ps[i] < ps[j]
     /\ \A p \in Due \ {ps[i] : i \in DOMAIN ps} :
          Len(ps) = BatchSize /\ p > ps[BatchSize]}

BatchAt(ps) ==
  [i \in DOMAIN ps |-> [id |-> queue[ps[i]], attempts |-> inbox[queue[ps[i]]].attempts]]

Read(s) ==
  /\ sweep[s].pc = "idle"
  /\ \E ps \in Batches :
       sweep' = [sweep EXCEPT ![s] = [pc |-> "loop", outcome |-> "none", batch |-> BatchAt(ps)]]
  /\ UNCHANGED <<inbox, queue, request, applied, faults, failures, forgotten>>

Row(s) == Head(sweep[s].batch)

(* The reprocessor's run.  A source without one (AI-Ark) always throws. *)
Retry(s) ==
  /\ sweep[s].pc = "loop" /\ sweep[s].batch # <<>>
  /\ \E outcome \in {"ok", "throw"}, effect \in BOOLEAN :
       /\ Run(Row(s).id, outcome, effect)
       /\ sweep' = [sweep EXCEPT ![s].pc = "mark", ![s].outcome = outcome]
  /\ UNCHANGED <<inbox, queue, request, faults, forgotten>>

OutcomeIgnored(s) == Processed(inbox[Row(s).id])
Outcome(s) ==
  IF sweep[s].outcome = "ok" THEN Processed(inbox[Row(s).id]) ELSE Retried(Row(s).attempts)

Mark(s) ==
  /\ sweep[s].pc = "mark"
  /\ Write(Row(s).id, Outcome(s))
  /\ sweep' = [sweep EXCEPT ![s] = [pc |-> "loop", batch |-> Tail(@.batch), outcome |-> "none"]]
  /\ UNCHANGED <<queue, request, applied, failures, forgotten>>

EndSweep(s) ==
  /\ sweep[s].pc = "loop" /\ sweep[s].batch = <<>>
  /\ sweep' = [sweep EXCEPT ![s] = Resting]
  /\ UNCHANGED <<inbox, queue, request, applied, faults, failures, forgotten>>

-----------------------------------------------------------------------------
(* The worker process dies, with its sweeps and the requests it works on.  A sender
   without an answer delivers again, as another delivery. *)
Crash ==
  /\ \/ \E s \in Sweep : sweep[s] # Resting
     \/ \E d \in Delivery : request[d] \in {"working", "enqueue", "mark"}
  /\ Fault
  /\ sweep' = [s \in Sweep |-> Resting]
  /\ request' = [d \in Delivery |->
       IF request[d] \notin {"working", "enqueue", "mark"} THEN request[d]
       ELSE IF d \in AckFirst \cup Held THEN "answered" ELSE "refused"]
  /\ forgotten' = forgotten \cup {d \in AckFirst : request[d] \in {"working", "enqueue"}}
  /\ UNCHANGED <<inbox, queue, applied, failures>>

SweepStep(s) == Retry(s) \/ Mark(s) \/ EndSweep(s)
RequestStep(d) == Receive(d) \/ Hold(d) \/ Handle(d) \/ Enqueue(d) \/ MarkHeld(d)

Next ==
  \/ \E d \in Delivery : RequestStep(d) \/ ComeDue(d)
  \/ \E s \in Sweep : Read(s) \/ SweepStep(s)
  \/ Crash

Spec == Init /\ [][Next]_vars

(* Fairness: cron starts a sweep each minute, every query and reprocessor ends, and
   time passes.  Nothing is assumed of senders, or of how runs end. *)
InboxFairness ==
  /\ \A d \in Delivery : WF_vars(ComeDue(d)) /\ WF_vars(Handle(d) \/ Enqueue(d) \/ MarkHeld(d))
  /\ \A s \in Sweep : WF_vars(Read(s)) /\ WF_vars(SweepStep(s))

FairSpec == Spec /\ InboxFairness

-----------------------------------------------------------------------------
(* Properties *)

StoredRow == [status : {"none", "pending", "processed", "failed"}, attempts : 0..MaxAttempts,
              due : BOOLEAN]
BatchRow  == [id : Delivery, attempts : 0..(MaxAttempts - 1)]

(* Types.  A row that is read has attempts left, so no count passes the cap. *)
TypeOK ==
  /\ inbox \in [Delivery -> StoredRow]
  /\ \A d \in Delivery : Pending(d) => inbox[d].attempts < MaxAttempts
  /\ queue \in Seq(Delivery)
  /\ request \in [Delivery -> {"new", "working", "enqueue", "mark", "answered", "refused"}]
  /\ sweep \in [Sweep -> [pc : {"idle", "loop", "mark"}, batch : Seq(BatchRow),
                          outcome : {"none", "ok", "throw"}]]
  /\ applied \subseteq Delivery
  /\ faults \in Nat
  /\ failures \in [Delivery -> 0..MaxAttempts]
  /\ forgotten \subseteq Delivery

(* A row is given up on, and an operator paged, only after its delivery was really
   tried MAX_ATTEMPTS times and failed each time, however sweeps overlap, batches go
   stale and updates are lost (markRetry counts from the batch). *)
GivenUpIsEarned ==
  \A d \in Delivery : inbox[d].status = "failed" => failures[d] >= MaxAttempts

(* A delivery that was answered, and that the insert and the process did not lose, is
   owed its effect: it is applied, or its row is pending, or it had all its attempts.
   In particular no late update of an overlapping sweep closes a row that was never
   applied (markProcessed, markRetry). *)
AnsweredIsOwed ==
  \A d \in Delivery :
    request[d] = "answered" /\ d \notin forgotten =>
      d \in applied \/ Pending(d) \/ failures[d] >= MaxAttempts

(* Every row is settled for good in the end, although an overlapping sweep may bring a
   processed or a failed row back (markRetry). *)
RowsSettle == \A d \in Delivery : <>[]~Pending(d)

=============================================================================
