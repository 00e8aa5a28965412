--------------------------- MODULE WebhookOutbox ---------------------------
(***************************************************************************)
(* Outbound webhooks.  enqueueOutboundEvent (packages/core/src/db/         *)
(* triggers.ts) stores one row of outbound_events per event and            *)
(* subscription; deliverTriggers (apps/worker/src/workers/                 *)
(* triggerDelivery.mjs) reads the rows that are due, sends them one after  *)
(* the other and marks each delivered, or failed with a backoff, or dead;  *)
(* sendTestDelivery and resendDelivery (db/webhookDeliveries.ts) are the   *)
(* API's own sends.                                                        *)
(*                                                                         *)
(* A row is an (event, subscription) pair.  The clock is abstract: a row   *)
(* whose next_attempt_at lies ahead is not due, and comes due by a step.   *)
(***************************************************************************)
EXTENDS Naturals, FiniteSets

CONSTANTS
  Key,          \* events, by their external_id
  TestKey,      \* test sends
  Sub,          \* trigger_subscriptions of the workspace, all listening
  Producer,     \* concurrent calls of enqueueOutboundEvent
  UserEdits,    \* which of "pause", "delete" and "lapse" happen
  BatchSize,    \* BATCH_SIZE of the worker's read
  MaxAttempts,  \* MAX_ATTEMPTS
  MaxFault      \* bound: faults

Row == (Key \cup TestKey) \X Sub

ASSUME OutboxAssumption ==
  /\ Key \cap TestKey = {}
  /\ BatchSize \in Nat \ {0}
  /\ MaxAttempts \in 1..99
  /\ MaxFault \in Nat

VARIABLES
  outbox,     \* [Row -> the row of outbound_events]
  subs,       \* [Sub -> "active", "paused" or "deleted"]
  lapsed,     \* what workspaceTrialLapsed answers the worker
  producer,   \* [Producer -> the enqueue in flight]
  test,       \* [TestKey \X Sub -> the test send]
  worker,     \* the delivery loop: the batch as it was read, the row being sent
  logged,     \* rows with an attempt in webhook_deliveries
  received,   \* rows their receiver has taken
  faults,     \* faults so far
  (* history *)
  turns,      \* [Row -> times the worker sent the row, or found it inactive]
  unmarked,   \* [Row -> times the outcome of a turn was not stored]
  refused     \* rows refused for good, or failed as a test

history == <<turns, unmarked, refused>>
vars == <<outbox, subs, lapsed, producer, test, worker, logged, received, faults,
          turns, unmarked, refused>>

-----------------------------------------------------------------------------
NoRow  == [there |-> FALSE, delivered |-> FALSE, dead |-> FALSE, attempts |-> 0, due |-> FALSE]
NewRow == [NoRow EXCEPT !.there = TRUE, !.due = TRUE]

Resting == [pc |-> "idle", batch |-> {}, attempts |-> [r \in Row |-> 0], active |-> {},
            cur |-> {}, outcome |-> "none"]

Pending(r) == outbox[r].there /\ ~outbox[r].delivered /\ ~outbox[r].dead

Init ==
  /\ outbox = [r \in Row |-> NoRow]
  /\ subs = [s \in Sub |-> "active"]
  /\ lapsed = FALSE
  /\ producer = [p \in Producer |-> [pc |-> "idle", rows |-> {}]]
  /\ test = [r \in TestKey \X Sub |-> "new"]
  /\ worker = Resting
  /\ logged = {}
  /\ received = {}
  /\ faults = 0
  /\ turns = [r \in Row |-> 0]
  /\ unmarked = [r \in Row |-> 0]
  /\ refused = {}

Fault == faults < MaxFault /\ faults' = faults + 1

-----------------------------------------------------------------------------
(* enqueueOutboundEvent: read the active subscriptions, then store a row for
   each in one statement.  A row already there is left as it is. *)

Lookup(p, k) ==
  /\ producer[p].pc = "idle"
  /\ LET R == {k} \X {s \in Sub : subs[s] = "active"} IN
       /\ R # {}
       /\ producer' = [producer EXCEPT ![p] = [pc |-> "insert", rows |-> R]]
  /\ UNCHANGED <<outbox, subs, lapsed, test, worker, logged, received, faults, history>>

StoredOver(R) == [r \in Row |-> IF r \in R THEN NewRow ELSE outbox[r]]
Stored(R) == [r \in Row |-> IF r \in R /\ ~outbox[r].there THEN NewRow ELSE outbox[r]]

(* The statement fails as a whole when one of the subscriptions is gone, or for
   any other error; the error is swallowed. *)
InsertRows(p) ==
  /\ producer[p].pc = "insert"
  /\ \/ /\ \A r \in producer[p].rows : subs[r[2]] # "deleted"
        /\ outbox' = Stored(producer[p].rows)
        /\ UNCHANGED faults
     \/ /\ \E r \in producer[p].rows : subs[r[2]] = "deleted"
        /\ UNCHANGED <<outbox, faults>>
     \/ Fault /\ UNCHANGED outbox
  /\ producer' = [producer EXCEPT ![p] = [pc |-> "idle", rows |-> {}]]
  /\ UNCHANGED <<subs, lapsed, test, worker, logged, received, history>>

-----------------------------------------------------------------------------
(* Users: updateTrigger, deleteTrigger (its rows go with it), the trial *)

Pause(s) ==
  /\ "pause" \in UserEdits /\ subs[s] # "deleted"
  /\ subs' = [subs EXCEPT ![s] = IF @ = "active" THEN "paused" ELSE "active"]
  /\ UNCHANGED <<outbox, lapsed, producer, test, worker, logged, received, faults, history>>

Delete(s) ==
  /\ "delete" \in UserEdits /\ subs[s] # "deleted"
  /\ subs' = [subs EXCEPT ![s] = "deleted"]
  /\ outbox' = [r \in Row |-> IF r[2] = s THEN NoRow ELSE outbox[r]]
  /\ logged' = {r \in logged : r[2] # s}
  /\ UNCHANGED <<lapsed, producer, test, worker, received, faults, history>>

Lapse ==
  /\ "lapse" \in UserEdits
  /\ lapsed' = ~lapsed
  /\ UNCHANGED <<outbox, subs, producer, test, worker, logged, received, faults, history>>

InFlight(r) == test[r] \in {"sending", "ok", "failed"}

(* next_attempt_at passes.  A test send takes seconds and its row waits a day. *)
ComeDue(r) ==
  /\ Pending(r) /\ ~outbox[r].due
  /\ r[1] \in TestKey => ~InFlight(r)
  /\ outbox' = [outbox EXCEPT ![r].due = TRUE]
  /\ UNCHANGED <<subs, lapsed, producer, test, worker, logged, received, faults, history>>

-----------------------------------------------------------------------------
(* deliverTriggers.  isRunning keeps the ticks of the process apart. *)

DueBeforeLast == {r \in Row : Pending(r) /\ outbox[r].due /\ outbox[r].attempts + 1 < MaxAttempts}
Due == {r \in Row : Pending(r) /\ outbox[r].due}

Idling == worker.pc = "idle"

Fetch ==
  /\ Idling
  /\ Due # {}
  /\ \E B \in SUBSET Due :
       /\ Cardinality(B) = IF Cardinality(Due) < BatchSize THEN Cardinality(Due) ELSE BatchSize
       /\ worker' = [pc |-> "loop", batch |-> B,
                     attempts |-> [r \in Row |-> IF r \in B THEN outbox[r].attempts ELSE 0],
                     active |-> {r \in B : subs[r[2]] = "active"},
                     cur |-> {}, outcome |-> "none"]
  /\ UNCHANGED <<outbox, subs, lapsed, producer, test, logged, received, faults, history>>

FailureLate(row, n) ==
  IF ~row.there THEN row
  ELSE [row EXCEPT !.attempts = n + 1, !.due = FALSE, !.dead = n + 1 > MaxAttempts]
FailureEarly(row, n) ==
  IF ~row.there THEN row
  ELSE [row EXCEPT !.attempts = n + 1, !.due = FALSE, !.dead = n + 2 >= MaxAttempts]

(* markFailure: the attempts are those of the batch, not of the row. *)
Failure(row, n) ==
  IF ~row.there THEN row
  ELSE [row EXCEPT !.attempts = n + 1, !.due = FALSE, !.dead = n + 1 >= MaxAttempts]

(* markDelivered *)
DeliveredAnyway(row, n) == [row EXCEPT !.attempts = n + 1, !.delivered = TRUE]
Delivered(row, n) ==
  IF ~row.there THEN row ELSE [row EXCEPT !.attempts = n + 1, !.delivered = TRUE]

(* The row's update, done or unanswered. *)
Mark(r, row) ==
  \/ /\ outbox' = [outbox EXCEPT ![r] = row]
     /\ UNCHANGED <<faults, unmarked>>
  \/ /\ Fault
     /\ unmarked' = [unmarked EXCEPT ![r] = @ + 1]
     /\ UNCHANGED outbox

Done(r) == [pc |-> "loop", batch |-> worker.batch \ {r},
            attempts |-> [worker.attempts EXCEPT ![r] = 0],
            active |-> worker.active \ {r}, cur |-> {}, outcome |-> "none"]

(* A row whose subscription the read found paused is failed without a send. *)
SkipInactive(r) ==
  /\ worker.pc = "loop" /\ r \in worker.batch \ worker.active
  /\ Mark(r, Failure(outbox[r], worker.attempts[r]))
  /\ worker' = Done(r)
  /\ turns' = [turns EXCEPT ![r] = @ + 1]
  /\ UNCHANGED <<subs, lapsed, producer, test, logged, received, refused>>

(* A lapsed trial's event waits an hour; the error of the update is not looked at. *)
SkipLapsed(r) ==
  /\ worker.pc = "loop" /\ r \in worker.active
  /\ lapsed
  /\ \/ outbox' = [outbox EXCEPT ![r].due = FALSE] /\ UNCHANGED faults
     \/ Fault /\ UNCHANGED outbox
  /\ worker' = Done(r)
  /\ UNCHANGED <<subs, lapsed, producer, test, logged, received, history>>

(* The receiver may have taken an event whose answer was lost. *)
Send(r) ==
  /\ worker.pc = "loop" /\ r \in worker.active
  /\ ~lapsed
  /\ \E outcome \in {"ok", "permanent", "transient"}, took \in BOOLEAN :
       /\ outcome = "ok" => took
       /\ outcome = "permanent" => ~took
       /\ received' = IF took THEN received \cup {r} ELSE received
       /\ worker' = [worker EXCEPT !.pc = "mark", !.cur = {r}, !.outcome = outcome]
       /\ refused' = IF outcome = "permanent" THEN refused \cup {r} ELSE refused
  /\ turns' = [turns EXCEPT ![r] = @ + 1]
  /\ UNCHANGED <<outbox, subs, lapsed, producer, test, logged, faults, unmarked>>

Permanent == 99

AfterSend(r) ==
  CASE worker.outcome = "ok"        -> Delivered(outbox[r], worker.attempts[r])
    [] worker.outcome = "permanent" -> Failure(outbox[r], Permanent)
    [] worker.outcome = "transient" -> Failure(outbox[r], worker.attempts[r])

(* deliverOne, after the answer: the row is settled, then the attempt is logged if
   the log can be written and the subscription is still there. *)
Settle(r) ==
  /\ worker.pc = "mark" /\ worker.cur = {r}
  /\ Mark(r, AfterSend(r))
  /\ logged' = IF outbox[r].there THEN logged \cup {r} ELSE logged
  /\ worker' = Done(r)
  /\ UNCHANGED <<subs, lapsed, producer, test, received, turns, refused>>

EndTick ==
  /\ worker.pc = "loop" /\ worker.batch = {}
  /\ worker' = Resting
  /\ UNCHANGED <<outbox, subs, lapsed, producer, test, logged, received, faults, history>>

(* The process dies in the middle of its batch. *)
WorkerCrash ==
  /\ ~Idling
  /\ Fault
  /\ worker' = Resting
  /\ unmarked' = [r \in Row |-> IF r \in worker.cur THEN unmarked[r] + 1 ELSE unmarked[r]]
  /\ UNCHANGED <<outbox, subs, lapsed, producer, test, logged, received, turns, refused>>

-----------------------------------------------------------------------------
(* sendTestDelivery: the row is stored parked, sent, and settled. *)

NotParked == NewRow
Parked == [NewRow EXCEPT !.due = FALSE]

TestStore(r) ==
  /\ test[r] = "new"
  /\ subs[r[2]] = "active"
  /\ outbox' = [outbox EXCEPT ![r] = Parked]
  /\ test' = [test EXCEPT ![r] = "sending"]
  /\ UNCHANGED <<subs, lapsed, producer, worker, logged, received, faults, history>>

(* The send and the settling update, which may fail, and the process with it. *)
TestSettled(row, ok) ==
  IF ~row.there THEN row
  ELSE IF ok THEN [row EXCEPT !.attempts = 1, !.delivered = TRUE]
  ELSE [row EXCEPT !.attempts = 1, !.dead = TRUE]

TestSend(r) ==
  /\ test[r] = "sending"
  /\ \E ok \in BOOLEAN, took \in BOOLEAN :
       /\ ok => took
       /\ received' = IF took THEN received \cup {r} ELSE received
       /\ test' = [test EXCEPT ![r] = IF ok THEN "ok" ELSE "failed"]
       /\ refused' = IF ok THEN refused ELSE refused \cup {r}
  /\ UNCHANGED <<outbox, subs, lapsed, producer, worker, logged, faults, turns, unmarked>>

TestSettle(r) ==
  /\ test[r] \in {"ok", "failed"}
  /\ outbox' = [outbox EXCEPT ![r] = TestSettled(outbox[r], test[r] = "ok")]
  /\ logged' = IF outbox[r].there THEN logged \cup {r} ELSE logged
  /\ test' = [test EXCEPT ![r] = "done"]
  /\ UNCHANGED <<subs, lapsed, producer, worker, received, faults, history>>

(* The API dies, or its settling update fails: the row stays parked. *)
TestLost(r) ==
  /\ InFlight(r)
  /\ Fault
  /\ test' = [test EXCEPT ![r] = "done"]
  /\ UNCHANGED <<outbox, subs, lapsed, producer, worker, logged, received, history>>

(* resendDelivery: the event of a logged attempt once more; the outbox row is not
   touched. *)
Resend(r) ==
  /\ r \in logged
  /\ subs[r[2]] = "active"
  /\ received' = received \cup {r}
  /\ UNCHANGED <<outbox, subs, lapsed, producer, test, worker, logged, faults, history>>

-----------------------------------------------------------------------------
WorkerStep(r) == SkipInactive(r) \/ SkipLapsed(r) \/ Send(r) \/ Settle(r)

Next ==
  \/ \E p \in Producer : InsertRows(p) \/ \E k \in Key : Lookup(p, k)
  \/ \E s \in Sub : Pause(s) \/ Delete(s)
  \/ Lapse
  \/ \E r \in Row : ComeDue(r) \/ Resend(r) \/ WorkerStep(r)
  \/ Fetch \/ EndTick \/ WorkerCrash
  \/ \E r \in TestKey \X Sub : TestStore(r) \/ TestSend(r) \/ TestSettle(r) \/ TestLost(r)

Spec == Init /\ [][Next]_vars

(* Fairness: cron starts a tick every 30 seconds, every send and query ends (sends
   time out), and time passes.  A test send in progress ends too. *)
OutboxFairness ==
  /\ WF_vars(Fetch) /\ WF_vars(EndTick)
  /\ \A r \in Row : WF_vars(ComeDue(r)) /\ WF_vars(WorkerStep(r))
  /\ \A r \in TestKey \X Sub : WF_vars(TestSend(r)) /\ WF_vars(TestSettle(r))

FairSpec == Spec /\ OutboxFairness

-----------------------------------------------------------------------------
(* Properties *)

StoredRow == [there : BOOLEAN, delivered : BOOLEAN, dead : BOOLEAN, attempts : 0..100, due : BOOLEAN]

(* Types; a row that is not there holds nothing. *)
TypeOK ==
  /\ outbox \in [Row -> StoredRow]
  /\ \A r \in Row : outbox[r].there \/ outbox[r] = NoRow
  /\ subs \in [Sub -> {"active", "paused", "deleted"}]
  /\ lapsed \in BOOLEAN
  /\ producer \in [Producer -> [pc : {"idle", "insert"}, rows : SUBSET (Key \X Sub)]]
  /\ test \in [TestKey \X Sub -> {"new", "sending", "ok", "failed", "done"}]
  /\ worker \in [pc : {"idle", "loop", "mark"}, batch : SUBSET Row, attempts : [Row -> 0..100],
                 active : SUBSET Row, cur : SUBSET Row,
                 outcome : {"none", "ok", "permanent", "transient"}]
  /\ logged \subseteq Row
  /\ received \subseteq Row
  /\ faults \in Nat
  /\ turns \in [Row -> Nat]
  /\ unmarked \in [Row -> Nat]
  /\ refused \subseteq Row

(* The abstract status of a row. *)
StatusOf(r) ==
  CASE outbox[r].delivered -> "delivered"
    [] outbox[r].dead /\ ~outbox[r].delivered -> "dead"
    [] Pending(r) -> "pending"
    [] ~outbox[r].there -> IF subs[r[2]] = "deleted" THEN "gone" ELSE "none"

Status == [r \in Row |-> StatusOf(r)]

Promise == INSTANCE DeliveryPromise WITH status <- Status, received <- received

(* The outbox keeps the promise of DeliveryPromise: whatever batch the worker
   holds while subscriptions are paused and deleted, events are enqueued again,
   tests are sent and processes die, a row is settled once, and as delivered only
   when the receiver took it (markDelivered, markFailure). *)
KeepsPromise == Promise!Spec

(* An event is dead only after its receiver refused it for good or the worker
   spent all its attempts on it: no event dies early, in whatever way turns are
   lost, batches go stale and processes die (markFailure). *)
DeadIsEarned ==
  \A r \in Row : outbox[r].dead => r \in refused \/ turns[r] >= MaxAttempts

(* And the worker gives up: it spends no more turns on an event than its attempts
   and the turns whose outcome could not be stored. *)
GivesUp == \A r \in Row : turns[r] <= MaxAttempts + unmarked[r]

(* An event does not stay pending for ever once the trial is no longer lapsed: it
   is delivered, dies or goes with its subscription. *)
Settles == <>[](~lapsed) => \A r \in Row : Pending(r) ~> ~Pending(r)

=============================================================================
