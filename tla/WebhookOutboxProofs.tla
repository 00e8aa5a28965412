------------------------ MODULE WebhookOutboxProofs ------------------------
(* What the outbox gives for every set of events, subscriptions and producers,
   every batch size and every number of attempts: the types, that it keeps the
   promise of DeliveryPromise, that no event dies early, and that the worker
   gives up. *)
EXTENDS WebhookOutbox, TLAPS

(* The worker sends rows of its batch, one at a time. *)
WorkerOK ==
  /\ worker.active \subseteq worker.batch
  /\ worker.cur \subseteq worker.batch
  /\ worker.pc = "idle" => worker.batch = {}
  /\ worker.pc # "mark" => worker.cur = {}
  /\ worker.pc = "mark" => worker.outcome # "none"
  /\ worker.outcome = "ok" => worker.cur \subseteq received
  /\ worker.outcome = "permanent" => worker.cur \subseteq refused

(* A row of the batch is as it was read until the worker settles it, unless its
   subscription took it along. *)
RowOK(r) ==
  /\ subs[r[2]] = "deleted" => ~outbox[r].there
  /\ r \in logged => outbox[r].there
  /\ Pending(r) => outbox[r].attempts < MaxAttempts
  /\ r \in worker.batch =>
       /\ worker.attempts[r] < MaxAttempts
       /\ \/ subs[r[2]] = "deleted"
          \/ Pending(r) /\ outbox[r].attempts = worker.attempts[r]

(* The attempts a row has on record, against the turns it took. *)
CountOK(r) ==
  /\ ~outbox[r].there /\ subs[r[2]] # "deleted" => turns[r] = 0
  /\ r \in worker.cur => /\ worker.attempts[r] + 1 <= turns[r]
                         /\ turns[r] <= worker.attempts[r] + 1 + unmarked[r]
  /\ r \in worker.batch \ worker.cur => /\ worker.attempts[r] <= turns[r]
                                        /\ turns[r] <= worker.attempts[r] + unmarked[r]
  /\ Pending(r) /\ r \notin worker.batch => /\ outbox[r].attempts <= turns[r]
                                            /\ turns[r] <= outbox[r].attempts + unmarked[r]
  /\ turns[r] <= MaxAttempts + unmarked[r]
  /\ outbox[r].dead => r \in refused \/ turns[r] >= MaxAttempts

(* The worker cannot see a test's row before the test is over. *)
TestOK(r) ==
  /\ test[r] = "new" => r \notin worker.batch /\ ~outbox[r].there
  /\ InFlight(r) => /\ r \notin worker.batch
                    /\ subs[r[2]] = "deleted" \/ (Pending(r) /\ ~outbox[r].due)
  /\ test[r] = "ok" => r \in received
  /\ test[r] = "failed" => r \in refused

OInv ==
  /\ TypeOK
  /\ WorkerOK
  /\ \A r \in Row : RowOK(r) /\ CountOK(r)
  /\ \A r \in TestKey \X Sub : TestOK(r)

-----------------------------------------------------------------------------
(* Rows *)

TestRow == TestKey \X Sub

LEMMA RowParts ==
  /\ \A r \in Row : r[2] \in Sub
  /\ \A r \in TestKey \X Sub : r \in Row /\ r[1] \in TestKey
  /\ \A r \in Key \X Sub : r \in Row /\ r \notin TestKey \X Sub
  BY OutboxAssumption, SMTT(30) DEF Row

(* The updates, field by field. *)
LEMMA SetStored ==
  ASSUME NEW row \in StoredRow, NEW a \in BOOLEAN, NEW b \in BOOLEAN
  PROVE  LET x == [row EXCEPT !.there = a, !.due = b] IN
           /\ x \in StoredRow /\ x.there = a /\ x.due = b
           /\ x.delivered = row.delivered /\ x.dead = row.dead /\ x.attempts = row.attempts
  BY DEF StoredRow

LEMMA SetDue ==
  ASSUME NEW row \in StoredRow, NEW b \in BOOLEAN
  PROVE  LET x == [row EXCEPT !.due = b] IN
           /\ x \in StoredRow /\ x.due = b /\ x.there = row.there
           /\ x.delivered = row.delivered /\ x.dead = row.dead /\ x.attempts = row.attempts
  BY DEF StoredRow

LEMMA SetDead ==
  ASSUME NEW row \in StoredRow, NEW n \in 0..100, NEW d \in BOOLEAN
  PROVE  LET x == [row EXCEPT !.attempts = n, !.dead = d] IN
           /\ x \in StoredRow /\ x.attempts = n /\ x.dead = d
           /\ x.there = row.there /\ x.delivered = row.delivered /\ x.due = row.due
  BY DEF StoredRow

LEMMA SetDelivered ==
  ASSUME NEW row \in StoredRow, NEW n \in 0..100, NEW d \in BOOLEAN
  PROVE  LET x == [row EXCEPT !.attempts = n, !.delivered = d] IN
           /\ x \in StoredRow /\ x.attempts = n /\ x.delivered = d
           /\ x.there = row.there /\ x.dead = row.dead /\ x.due = row.due
  BY DEF StoredRow

LEMMA RowValues ==
  /\ NoRow \in StoredRow /\ NewRow \in StoredRow /\ Parked \in StoredRow
  /\ ~NoRow.there /\ ~NoRow.dead /\ ~NoRow.delivered
  /\ NewRow.there /\ ~NewRow.dead /\ ~NewRow.delivered /\ NewRow.attempts = 0
  /\ Parked.there /\ ~Parked.dead /\ ~Parked.delivered /\ Parked.attempts = 0 /\ ~Parked.due
  <1>1. /\ NoRow \in StoredRow /\ ~NoRow.there /\ ~NoRow.dead /\ ~NoRow.delivered
        /\ NoRow.attempts = 0
    BY DEF NoRow, StoredRow
  <1>2. /\ NewRow \in StoredRow /\ NewRow.there /\ ~NewRow.dead /\ ~NewRow.delivered
        /\ NewRow.attempts = 0
    BY <1>1, SetStored, Zenon DEF NewRow
  <1>3. /\ Parked \in StoredRow /\ Parked.there /\ ~Parked.dead /\ ~Parked.delivered
        /\ Parked.attempts = 0 /\ ~Parked.due
    BY <1>2, SetDue, Zenon DEF Parked
  <1>. QED BY <1>1, <1>2, <1>3

LEMMA RestingFields ==
  /\ Resting.pc = "idle" /\ Resting.batch = {} /\ Resting.active = {} /\ Resting.cur = {}
  /\ Resting.outcome = "none" /\ Resting.attempts = [r \in Row |-> 0]
  BY DEF Resting

(* markFailure and markDelivered on a stored row. *)
LEMMA FailureRow ==
  ASSUME NEW row \in StoredRow, NEW n \in Nat, n < MaxAttempts \/ n = Permanent
  PROVE  LET x == Failure(row, n) IN
           /\ x \in StoredRow
           /\ ~row.there => x = row
           /\ row.there => /\ x.there /\ x.delivered = row.delivered
                           /\ x.attempts = n + 1
                           /\ x.dead <=> n + 1 >= MaxAttempts
                           /\ ~x.due
  <1>. DEFINE m == n + 1
              d == n + 1 >= MaxAttempts
              x == [row EXCEPT !.attempts = m, !.due = FALSE, !.dead = d]
  <1>1. m \in 0..100 /\ d \in BOOLEAN
    BY OutboxAssumption DEF Permanent
  <1>2. /\ x \in StoredRow /\ x.attempts = m /\ ~x.due /\ x.dead = d
        /\ x.there = row.there /\ x.delivered = row.delivered
    <2>. HIDE DEF m, d
    <2>1. x \in StoredRow
      BY <1>1 DEF StoredRow
    <2>2. x.attempts = m /\ x.there = row.there /\ x.delivered = row.delivered
      BY <1>1 DEF StoredRow
    <2>3. ~x.due
      BY <1>1 DEF StoredRow
    <2>4. x.dead = d
      BY <1>1 DEF StoredRow
    <2>. QED BY <2>1, <2>2, <2>3, <2>4
  <1>3. Failure(row, n) = IF ~row.there THEN row ELSE x
    BY Zenon DEF Failure
  <1>. HIDE DEF x
  <1>. QED BY <1>2, <1>3

LEMMA DeliveredRow ==
  ASSUME NEW row \in StoredRow, NEW n \in Nat, n < MaxAttempts
  PROVE  LET x == Delivered(row, n) IN
           /\ x \in StoredRow
           /\ ~row.there => x = row
           /\ row.there => x.there /\ x.delivered /\ x.dead = row.dead
  <1>. DEFINE m == n + 1
              x == [row EXCEPT !.attempts = m, !.delivered = TRUE]
  <1>1. m \in 0..100
    BY OutboxAssumption
  <1>2. x \in StoredRow /\ x.there = row.there /\ x.delivered /\ x.dead = row.dead
    <2>. HIDE DEF m
    <2>. QED BY <1>1, SetDelivered, Zenon
  <1>3. Delivered(row, n) = IF ~row.there THEN row ELSE x
    BY Zenon DEF Delivered
  <1>. HIDE DEF x
  <1>. QED BY <1>2, <1>3

LEMMA TestSettledRow ==
  ASSUME NEW row \in StoredRow, NEW ok \in BOOLEAN
  PROVE  LET x == TestSettled(row, ok) IN
           /\ x \in StoredRow
           /\ ~row.there => x = row
           /\ row.there => /\ x.there
                           /\ ok => x.delivered /\ x.dead = row.dead
                           /\ ~ok => x.dead /\ x.delivered = row.delivered
  <1>. DEFINE y == [row EXCEPT !.attempts = 1, !.delivered = TRUE]
              z == [row EXCEPT !.attempts = 1, !.dead = TRUE]
  <1>1. 1 \in 0..100
    OBVIOUS
  <1>2. y \in StoredRow /\ y.there = row.there /\ y.delivered /\ y.dead = row.dead
    BY <1>1, SetDelivered, Zenon
  <1>3. z \in StoredRow /\ z.there = row.there /\ z.dead /\ z.delivered = row.delivered
    BY <1>1, SetDead, Zenon
  <1>4. TestSettled(row, ok) = IF ~row.there THEN row ELSE IF ok THEN y ELSE z
    BY Zenon DEF TestSettled
  <1>. HIDE DEF y, z
  <1>. QED BY <1>2, <1>3, <1>4

-----------------------------------------------------------------------------
LEMMA OInvInit == Init => OInv
  <1>. SUFFICES ASSUME Init  PROVE OInv
    OBVIOUS
  <1>1. TypeOK
    <2>1. outbox \in [Row -> StoredRow] /\ \A r \in Row : outbox[r] = NoRow
      BY RowValues DEF Init
    <2>2. Resting \in [pc : {"idle", "loop", "mark"}, batch : SUBSET Row, attempts : [Row -> 0..100],
                       active : SUBSET Row, cur : SUBSET Row,
                       outcome : {"none", "ok", "permanent", "transient"}]
      BY DEF Resting
    <2>. QED BY <2>1, <2>2 DEF Init, TypeOK
  <1>2. WorkerOK
    BY RestingFields DEF Init, WorkerOK
  <1>3. ASSUME NEW r \in Row  PROVE RowOK(r) /\ CountOK(r)
    BY RowParts, RowValues, RestingFields, OutboxAssumption DEF Init, RowOK, CountOK, Pending
  <1>4. ASSUME NEW r \in TestKey \X Sub  PROVE TestOK(r)
    BY RowParts, RowValues, RestingFields DEF Init, TestOK, InFlight
  <1>. QED BY <1>1, <1>2, <1>3, <1>4 DEF OInv
-----------------------------------------------------------------------------
(* Frames: what a step does not touch stays in order. *)

Same(q) ==
  /\ outbox'[q] = outbox[q]
  /\ subs'[q[2]] = "deleted" <=> subs[q[2]] = "deleted"
  /\ q \in logged' <=> q \in logged
  /\ q \in worker'.batch <=> q \in worker.batch
  /\ q \in worker'.batch => worker'.attempts[q] = worker.attempts[q]
  /\ q \in worker'.cur <=> q \in worker.cur
  /\ turns'[q] = turns[q] /\ unmarked'[q] = unmarked[q]
  /\ refused \subseteq refused'

LEMMA RowFrame ==
  ASSUME NEW q \in Row, RowOK(q), CountOK(q), Same(q), worker'.cur \subseteq worker'.batch
  PROVE  RowOK(q)' /\ CountOK(q)'
  <1>1. Pending(q)' <=> Pending(q)
    BY DEF Same, Pending
  <1>2. RowOK(q)'
    BY <1>1 DEF RowOK, Same
  <1>3. CountOK(q)'
    BY <1>1 DEF CountOK, Same
  <1>. QED BY <1>2, <1>3

LEMMA TestFrame ==
  ASSUME NEW q \in TestKey \X Sub, TestOK(q), Same(q), test'[q] = test[q],
         received \subseteq received'
  PROVE  TestOK(q)'
  BY DEF TestOK, Same, Pending, InFlight

WorkerType == [pc : {"idle", "loop", "mark"}, batch : SUBSET Row, attempts : [Row -> 0..100],
               active : SUBSET Row, cur : SUBSET Row,
               outcome : {"none", "ok", "permanent", "transient"}]

LEMMA DoneFields ==
  ASSUME worker \in WorkerType, NEW r \in Row
  PROVE  /\ Done(r) \in WorkerType
         /\ Done(r).pc = "loop" /\ Done(r).cur = {} /\ Done(r).outcome = "none"
         /\ Done(r).batch = worker.batch \ {r}
         /\ Done(r).active = worker.active \ {r}
         /\ \A q \in Row \ {r} : Done(r).attempts[q] = worker.attempts[q]
  <1>. DEFINE f == [worker.attempts EXCEPT ![r] = 0]
  <1>1. Done(r) = [pc |-> "loop", batch |-> worker.batch \ {r}, attempts |-> f,
                   active |-> worker.active \ {r}, cur |-> {}, outcome |-> "none"]
    BY DEF Done
  <1>2. f \in [Row -> 0..100] /\ \A q \in Row \ {r} : f[q] = worker.attempts[q]
    BY DEF WorkerType
  <1>. HIDE DEF f
  <1>. QED BY <1>1, <1>2 DEF WorkerType

LEMMA RestingType == Resting \in WorkerType
  BY DEF Resting, WorkerType

LEMMA MarkRow ==
  ASSUME TypeOK, NEW r \in Row, NEW row \in StoredRow, Mark(r, row)
  PROVE  /\ outbox' \in [Row -> StoredRow]
         /\ unmarked' \in [Row -> Nat]
         /\ faults' \in Nat
         /\ \A q \in Row \ {r} : outbox'[q] = outbox[q] /\ unmarked'[q] = unmarked[q]
         /\ \/ outbox'[r] = row /\ unmarked'[r] = unmarked[r]
            \/ outbox'[r] = outbox[r] /\ unmarked'[r] = unmarked[r] + 1
  BY DEF Mark, Fault, TypeOK

LEMMA CountsAreNat ==
  ASSUME OInv, NEW q \in Row
  PROVE  /\ turns[q] \in Nat /\ unmarked[q] \in Nat /\ outbox[q].attempts \in Nat
         /\ worker.attempts[q] \in Nat
  <1>1. outbox[q] \in StoredRow /\ worker.attempts \in [Row -> 0..100]
    BY DEF OInv, TypeOK
  <1>2. outbox[q].attempts \in 0..100 /\ worker.attempts[q] \in 0..100
    BY <1>1 DEF StoredRow
  <1>. QED BY <1>2 DEF OInv, TypeOK

(* The row as deliverOne settles it. *)
LEMMA AfterSendRow ==
  ASSUME OInv, NEW r \in Row, worker.pc = "mark", worker.cur = {r}
  PROVE  LET x == AfterSend(r)
             n == worker.attempts[r]
         IN  /\ x \in StoredRow
             /\ ~outbox[r].there => x = outbox[r]
             /\ outbox[r].there =>
                  /\ x.there
                  /\ \/ x.delivered /\ r \in received /\ ~x.dead
                     \/ ~x.delivered /\ x.dead /\ r \in refused
                     \/ /\ ~x.delivered /\ x.attempts = n + 1
                        /\ x.dead <=> n + 1 >= MaxAttempts
  <1>. DEFINE n == worker.attempts[r]
  <1>1. /\ r \in worker.batch /\ n \in Nat /\ n < MaxAttempts
        /\ outbox[r] \in StoredRow
        /\ worker.outcome \in {"ok", "permanent", "transient"}
        /\ worker.outcome = "ok" => r \in received
        /\ worker.outcome = "permanent" => r \in refused
        /\ outbox[r].there => ~outbox[r].delivered /\ ~outbox[r].dead
    BY DEF OInv, TypeOK, WorkerOK, RowOK, Pending
  <1>. HIDE DEF n
  <1>2. CASE worker.outcome = "ok"
    <2>1. AfterSend(r) = Delivered(outbox[r], n)
      BY <1>2 DEF AfterSend, n
    <2>. QED BY <1>1, <1>2, <2>1, DeliveredRow, Zenon DEF n
  <1>3. CASE worker.outcome = "permanent"
    <2>1. AfterSend(r) = Failure(outbox[r], Permanent)
      BY <1>3 DEF AfterSend
    <2>2. Permanent \in Nat /\ Permanent + 1 >= MaxAttempts
      BY OutboxAssumption DEF Permanent
    <2>. QED BY <1>1, <1>3, <2>1, <2>2, FailureRow
  <1>4. CASE worker.outcome = "transient"
    <2>1. AfterSend(r) = Failure(outbox[r], n)
      BY <1>4 DEF AfterSend, n
    <2>. QED BY <1>1, <1>4, <2>1, FailureRow DEF n
  <1>. QED BY <1>1, <1>2, <1>3, <1>4
-----------------------------------------------------------------------------
(* The steps outside the worker *)

LEMMA EveryRowSame ==
  ASSUME OInv, TypeOK', WorkerOK', \A q \in Row : Same(q),
         \A q \in TestKey \X Sub : test'[q] = test[q],
         received \subseteq received'
  PROVE  OInv'
  BY RowFrame, TestFrame, RowParts DEF OInv, WorkerOK

LEMMA LookupStep ==
  ASSUME OInv, NEW p \in Producer, NEW k \in Key, Lookup(p, k)  PROVE OInv'
  <1>1. TypeOK'
    BY DEF OInv, TypeOK, Lookup, history
  <1>2. WorkerOK'
    BY DEF OInv, WorkerOK, Lookup, history
  <1>3. \A q \in Row : Same(q)
    BY DEF Same, Lookup, history
  <1>. QED BY <1>1, <1>2, <1>3, EveryRowSame DEF Lookup

LEMMA InsertStep ==
  ASSUME OInv, NEW p \in Producer, InsertRows(p)  PROVE OInv'
  <1>. DEFINE R == producer[p].rows
  <1>1. R \subseteq Key \X Sub
    BY DEF OInv, TypeOK
  <1>2. outbox' = outbox \/ (outbox' = Stored(R) /\ \A r \in R : subs[r[2]] # "deleted")
    BY DEF InsertRows
  <1>3. \A q \in Row : \/ outbox'[q] = outbox[q]
                      \/ /\ q \in R /\ subs[q[2]] # "deleted"
                         /\ ~outbox[q].there /\ outbox'[q] = NewRow
    BY <1>2 DEF Stored
  <1>4. TypeOK'
    <2>1. outbox' \in [Row -> StoredRow]
      BY <1>2, RowValues DEF OInv, TypeOK, Stored
    <2>2. \A r \in Row : outbox'[r].there \/ outbox'[r] = NoRow
      BY <1>3, RowValues DEF OInv, TypeOK
    <2>3. faults' \in Nat
      BY DEF OInv, TypeOK, InsertRows, Fault
    <2>. QED BY <2>1, <2>2, <2>3 DEF OInv, TypeOK, InsertRows, history
  <1>5. WorkerOK'
    BY DEF OInv, WorkerOK, InsertRows, history
  <1>6. ASSUME NEW q \in Row  PROVE RowOK(q)' /\ CountOK(q)'
    <2>1. CASE outbox'[q] = outbox[q]
      <3>1. Same(q)
        BY <2>1 DEF Same, InsertRows, history
      <3>. QED BY <3>1, <1>5, RowFrame DEF OInv, WorkerOK
    <2>2. CASE /\ q \in R /\ subs[q[2]] # "deleted"
               /\ ~outbox[q].there /\ outbox'[q] = NewRow
      <3>1. q \notin worker.batch /\ q \notin logged
        BY <2>2 DEF OInv, RowOK, Pending
      <3>2. turns[q] = 0 /\ unmarked[q] \in Nat
        BY <2>2 DEF OInv, CountOK, TypeOK
      <3>3. RowOK(q)'
        BY <2>2, <3>1, RowValues, OutboxAssumption DEF RowOK, InsertRows, history, Pending
      <3>4. CountOK(q)'
        BY <2>2, <3>1, <3>2, RowValues, OutboxAssumption
           DEF OInv, WorkerOK, CountOK, InsertRows, history, Pending
      <3>. QED BY <3>3, <3>4
    <2>. QED BY <1>3, <2>1, <2>2
  <1>7. ASSUME NEW q \in TestKey \X Sub  PROVE TestOK(q)'
    <2>1. q \in Row /\ outbox'[q] = outbox[q]
      BY <1>1, <1>3, RowParts
    <2>2. Same(q)
      BY <2>1 DEF Same, InsertRows, history
    <2>. QED BY <2>1, <2>2, TestFrame DEF OInv, InsertRows, history
  <1>. QED BY <1>4, <1>5, <1>6, <1>7 DEF OInv

LEMMA PauseStep ==
  ASSUME OInv, NEW s \in Sub, Pause(s)  PROVE OInv'
  <1>1. TypeOK'
    BY DEF OInv, TypeOK, Pause, history
  <1>2. WorkerOK'
    BY DEF OInv, WorkerOK, Pause, history
  <1>3. \A q \in Row : Same(q)
    BY RowParts DEF OInv, TypeOK, Same, Pause, history
  <1>. QED BY <1>1, <1>2, <1>3, EveryRowSame DEF Pause, history

LEMMA DeleteStep ==
  ASSUME OInv, NEW s \in Sub, Delete(s)  PROVE OInv'
  <1>1. TypeOK'
    BY RowValues DEF OInv, TypeOK, Delete, history
  <1>2. WorkerOK'
    BY DEF OInv, WorkerOK, Delete, history
  <1>3. ASSUME NEW q \in Row, q[2] # s  PROVE Same(q)
    BY <1>3, RowParts DEF OInv, TypeOK, Same, Delete, history
  <1>4. ASSUME NEW q \in Row, q[2] = s
        PROVE  subs'[q[2]] = "deleted" /\ outbox'[q] = NoRow /\ q \notin logged'
    BY <1>4, RowParts DEF OInv, TypeOK, Delete, history
  <1>5. ASSUME NEW q \in Row  PROVE RowOK(q)' /\ CountOK(q)'
    <2>1. CASE q[2] # s
      BY <2>1, <1>2, <1>3, RowFrame DEF OInv, WorkerOK
    <2>2. CASE q[2] = s
      <3>1. ~Pending(q)'
        BY <2>2, <1>4, RowValues DEF Pending
      <3>2. RowOK(q)'
        BY <2>2, <3>1, <1>4, RowValues DEF OInv, RowOK, Delete
      <3>3. CountOK(q)'
        BY <2>2, <3>1, <1>4, RowValues DEF OInv, CountOK, Delete, history
      <3>. QED BY <3>2, <3>3
    <2>. QED BY <2>1, <2>2
  <1>6. ASSUME NEW q \in TestKey \X Sub  PROVE TestOK(q)'
    <2>1. CASE q[2] # s
      BY <2>1, <1>3, TestFrame, RowParts DEF OInv, Delete
    <2>2. CASE q[2] = s
      BY <2>2, <1>4, RowParts, RowValues DEF OInv, TestOK, Delete, InFlight, history
    <2>. QED BY <2>1, <2>2
  <1>. QED BY <1>1, <1>2, <1>5, <1>6 DEF OInv

LEMMA LapseStep ==
  ASSUME OInv, Lapse  PROVE OInv'
  <1>1. TypeOK'
    BY DEF OInv, TypeOK, Lapse, history
  <1>2. WorkerOK'
    BY DEF OInv, WorkerOK, Lapse, history
  <1>3. \A q \in Row : Same(q)
    BY DEF Same, Lapse, history
  <1>. QED BY <1>1, <1>2, <1>3, EveryRowSame DEF Lapse

LEMMA ResendStep ==
  ASSUME OInv, NEW r \in Row, Resend(r)  PROVE OInv'
  <1>1. TypeOK'
    BY DEF OInv, TypeOK, Resend, history
  <1>2. WorkerOK'
    BY DEF OInv, WorkerOK, Resend, history
  <1>3. \A q \in Row : Same(q)
    BY DEF Same, Resend, history
  <1>. QED BY <1>1, <1>2, <1>3, EveryRowSame DEF Resend

LEMMA ComeDueStep ==
  ASSUME OInv, NEW r \in Row, ComeDue(r)  PROVE OInv'
  <1>1. /\ outbox' \in [Row -> StoredRow]
        /\ \A q \in Row \ {r} : outbox'[q] = outbox[q]
        /\ outbox'[r].there = outbox[r].there /\ outbox'[r].dead = outbox[r].dead
        /\ outbox'[r].delivered = outbox[r].delivered
        /\ outbox'[r].attempts = outbox[r].attempts
    <2>. DEFINE x == [outbox[r] EXCEPT !.due = TRUE]
    <2>1. /\ x \in StoredRow /\ x.there = outbox[r].there
          /\ x.delivered = outbox[r].delivered /\ x.dead = outbox[r].dead
          /\ x.attempts = outbox[r].attempts
      BY SetDue, Zenon DEF OInv, TypeOK
    <2>2. outbox' = [outbox EXCEPT ![r] = x]
      BY DEF ComeDue
    <2>. HIDE DEF x
    <2>. QED BY <2>1, <2>2 DEF OInv, TypeOK
  <1>2. TypeOK'
    BY <1>1 DEF OInv, TypeOK, ComeDue, history, Pending
  <1>3. WorkerOK'
    BY DEF OInv, WorkerOK, ComeDue, history
  <1>4. \A q \in Row : Pending(q)' <=> Pending(q)
    BY <1>1 DEF Pending
  <1>5. \A q \in Row : RowOK(q)' /\ CountOK(q)'
    BY <1>1, <1>4 DEF OInv, RowOK, CountOK, ComeDue, history
  <1>6. ASSUME NEW q \in TestKey \X Sub  PROVE TestOK(q)'
    <2>1. CASE q = r
      BY <2>1, <1>1, <1>4, RowParts DEF OInv, TestOK, ComeDue, InFlight, history
    <2>2. CASE q # r
      BY <2>2, <1>1, <1>4, RowParts DEF OInv, TestOK, ComeDue, InFlight, history
    <2>. QED BY <2>1, <2>2
  <1>. QED BY <1>2, <1>3, <1>5, <1>6 DEF OInv

-----------------------------------------------------------------------------
(* The worker *)

LEMMA FetchStep ==
  ASSUME OInv, Fetch  PROVE OInv'
  <1>1. PICK B \in SUBSET Due :
          worker' = [pc |-> "loop", batch |-> B,
                     attempts |-> [r \in Row |-> IF r \in B THEN outbox[r].attempts ELSE 0],
                     active |-> {r \in B : subs[r[2]] = "active"},
                     cur |-> {}, outcome |-> "none"]
    BY DEF Fetch
  <1>2. worker.batch = {} /\ worker.cur = {}
    BY DEF OInv, WorkerOK, Fetch, Idling
  <1>3. /\ B \subseteq Row
        /\ \A q \in B : Pending(q) /\ outbox[q].due
    BY DEF Due
  <1>4. TypeOK'
    <2>1. worker' \in WorkerType
      BY <1>1, <1>3 DEF OInv, TypeOK, StoredRow, WorkerType
    <2>. QED BY <2>1 DEF OInv, TypeOK, Fetch, history, WorkerType
  <1>5. WorkerOK'
    BY <1>1 DEF WorkerOK
  <1>6. /\ worker'.batch = B /\ worker'.cur = {}
        /\ \A q \in B : worker'.attempts[q] = outbox[q].attempts
    BY <1>1, <1>3
  <1>7. \A q \in Row : Pending(q)' <=> Pending(q)
    BY DEF Pending, Fetch
  <1>8. \A q \in Row : RowOK(q)' /\ CountOK(q)'
    BY <1>2, <1>3, <1>6, <1>7 DEF OInv, RowOK, CountOK, Fetch, history
  <1>9. \A q \in TestKey \X Sub : TestOK(q)'
    BY <1>2, <1>3, <1>6, <1>7, RowParts DEF OInv, RowOK, TestOK, Fetch, InFlight, Pending, history
  <1>. QED BY <1>4, <1>5, <1>8, <1>9 DEF OInv

LEMMA EndTickStep ==
  ASSUME OInv, EndTick  PROVE OInv'
  <1>1. TypeOK'
    BY RestingType DEF OInv, TypeOK, EndTick, history, WorkerType
  <1>2. WorkerOK'
    BY RestingFields DEF WorkerOK, EndTick
  <1>3. worker.cur = {}
    BY DEF OInv, WorkerOK, EndTick
  <1>4. \A q \in Row : Same(q)
    BY <1>3, RestingFields DEF Same, EndTick, history
  <1>. QED BY <1>1, <1>2, <1>4, EveryRowSame DEF EndTick

LEMMA WorkerCrashStep ==
  ASSUME OInv, WorkerCrash  PROVE OInv'
  <1>1. TypeOK'
    BY RestingType DEF OInv, TypeOK, WorkerCrash, Fault, history, WorkerType
  <1>2. WorkerOK'
    BY RestingFields DEF WorkerOK, WorkerCrash
  <1>3. worker'.batch = {} /\ worker'.cur = {} /\ worker.cur \subseteq worker.batch
    BY RestingFields DEF OInv, WorkerOK, WorkerCrash
  <1>4. \A q \in Row : Pending(q)' <=> Pending(q)
    BY DEF Pending, WorkerCrash
  <1>5. ASSUME NEW q \in Row  PROVE RowOK(q)' /\ CountOK(q)'
    <2>1. RowOK(q)'
      BY <1>3, <1>4 DEF OInv, RowOK, WorkerCrash
    <2>2. unmarked'[q] = IF q \in worker.cur THEN unmarked[q] + 1 ELSE unmarked[q]
      BY DEF WorkerCrash
    <2>3. /\ turns[q] \in Nat /\ unmarked[q] \in Nat /\ outbox[q].attempts \in Nat
          /\ worker.attempts[q] \in Nat
      BY CountsAreNat
    <2>4. CountOK(q)'
      BY <2>2, <2>3, <1>3, <1>4, OutboxAssumption DEF OInv, RowOK, CountOK, WorkerCrash, Pending
    <2>. QED BY <2>1, <2>4
  <1>6. \A q \in TestKey \X Sub : TestOK(q)'
    BY <1>3, <1>4, RowParts DEF OInv, TestOK, WorkerCrash, InFlight
  <1>. QED BY <1>1, <1>2, <1>5, <1>6 DEF OInv

(* The turn of a row ends: it leaves the batch, settled or as it was. *)
LEMMA TurnEnds ==
  ASSUME OInv, NEW r \in Row, r \in worker.batch, worker.cur \subseteq {r},
         NEW row \in StoredRow, Mark(r, row), worker' = Done(r),
         UNCHANGED <<subs, received, refused, test>>,
         turns' \in [Row -> Nat], \A q \in Row \ {r} : turns'[q] = turns[q],
         (* the turn counts once, when it was sent or now *)
         turns'[r] = IF r \in worker.cur THEN turns[r] ELSE turns[r] + 1,
         ~outbox[r].there => row = outbox[r],
         outbox[r].there =>
           /\ row.there
           /\ \/ row.delivered /\ r \in received /\ ~row.dead
              \/ ~row.delivered /\ row.dead /\ r \in refused
              \/ /\ ~row.delivered /\ row.attempts = worker.attempts[r] + 1
                 /\ row.dead <=> worker.attempts[r] + 1 >= MaxAttempts,
         \/ logged' = logged
         \/ outbox[r].there /\ logged' = logged \cup {r},
         lapsed' = lapsed, producer' = producer
  PROVE  OInv'
  <1>1. /\ worker' \in WorkerType
        /\ worker'.pc = "loop" /\ worker'.cur = {} /\ worker'.outcome = "none"
        /\ worker'.batch = worker.batch \ {r}
        /\ worker'.active = worker.active \ {r}
        /\ \A q \in Row \ {r} : worker'.attempts[q] = worker.attempts[q]
    BY DoneFields DEF OInv, TypeOK, WorkerType
  <1>2. /\ outbox' \in [Row -> StoredRow]
        /\ unmarked' \in [Row -> Nat]
        /\ faults' \in Nat
        /\ \A q \in Row \ {r} : outbox'[q] = outbox[q] /\ unmarked'[q] = unmarked[q]
        /\ \/ outbox'[r] = row /\ unmarked'[r] = unmarked[r]
           \/ outbox'[r] = outbox[r] /\ unmarked'[r] = unmarked[r] + 1
    BY MarkRow DEF OInv
  <1>3. outbox'[r].there = outbox[r].there
    BY <1>2 DEF OInv, TypeOK, StoredRow
  <1>4. TypeOK'
    <2>1. \A q \in Row : outbox'[q].there \/ outbox'[q] = NoRow
      BY <1>2, <1>3 DEF OInv, TypeOK
    <2>. QED BY <2>1, <1>1, <1>2 DEF OInv, TypeOK, WorkerType
  <1>5. WorkerOK'
    BY <1>1 DEF OInv, WorkerOK
  <1>6. ASSUME NEW q \in Row, q # r  PROVE Same(q)
    BY <1>1, <1>2, <1>6 DEF Same
  <1>7. RowOK(r)'
    <2>1. Pending(r)' => outbox'[r].attempts < MaxAttempts
      <3>1. CASE outbox'[r] = outbox[r]
        BY <3>1 DEF OInv, RowOK, Pending
      <3>2. CASE outbox'[r] = row
        BY <3>2, <1>3, CountsAreNat, OutboxAssumption DEF Pending
      <3>. QED BY <1>2, <3>1, <3>2
    <2>2. subs[r[2]] = "deleted" => ~outbox'[r].there
      BY <1>3 DEF OInv, RowOK
    <2>3. r \in logged' => outbox'[r].there
      BY <1>3 DEF OInv, RowOK
    <2>. QED BY <2>1, <2>2, <2>3, <1>1 DEF RowOK
  <1>8. CountOK(r)'
    <2>. DEFINE n == worker.attempts[r]
    <2>1. /\ turns[r] \in Nat /\ unmarked[r] \in Nat /\ n \in Nat
          /\ outbox[r].attempts \in Nat /\ MaxAttempts \in Nat
      BY CountsAreNat, OutboxAssumption
    <2>2. n < MaxAttempts /\ n + 1 <= turns'[r] /\ turns'[r] <= n + 1 + unmarked[r]
      BY <2>1 DEF OInv, RowOK, CountOK
    <2>3. turns'[r] <= MaxAttempts + unmarked'[r]
      BY <1>2, <2>1, <2>2
    <2>4. outbox[r].there => Pending(r) /\ outbox[r].attempts = n
      BY DEF OInv, RowOK
    <2>5. Pending(r)' => /\ outbox'[r].attempts <= turns'[r]
                         /\ turns'[r] <= outbox'[r].attempts + unmarked'[r]
      <3>1. CASE outbox'[r] = outbox[r] /\ unmarked'[r] = unmarked[r] + 1
        BY <3>1, <2>1, <2>2, <2>4 DEF Pending
      <3>2. CASE outbox'[r] = row /\ unmarked'[r] = unmarked[r]
        BY <3>2, <1>3, <2>1, <2>2 DEF Pending
      <3>. QED BY <1>2, <3>1, <3>2
    <2>6. outbox'[r].dead => r \in refused \/ turns'[r] >= MaxAttempts
      <3>1. CASE ~outbox[r].there
        BY <3>1, <1>2, RowValues DEF OInv, TypeOK
      <3>2. CASE outbox[r].there /\ outbox'[r] = outbox[r]
        BY <3>2, <2>4 DEF Pending
      <3>3. CASE outbox[r].there /\ outbox'[r] = row
        BY <3>3, <2>1, <2>2
      <3>. QED BY <1>2, <3>1, <3>2, <3>3
    <2>7. ~outbox'[r].there => subs[r[2]] = "deleted"
      BY <1>3 DEF OInv, RowOK, Pending
    <2>. HIDE DEF n
    <2>. QED BY <1>1, <2>3, <2>5, <2>6, <2>7 DEF CountOK
  <1>9. ASSUME NEW q \in TestKey \X Sub  PROVE TestOK(q)'
    <2>1. CASE q = r
      BY <2>1, <1>1, <1>3 DEF OInv, TestOK, InFlight
    <2>2. CASE q # r
      BY <2>2, <1>6, TestFrame, RowParts DEF OInv
    <2>. QED BY <2>1, <2>2
  <1>10. ASSUME NEW q \in Row, q # r  PROVE RowOK(q)' /\ CountOK(q)'
    BY <1>10, <1>5, <1>6, RowFrame DEF OInv, WorkerOK
  <1>. QED BY <1>4, <1>5, <1>7, <1>8, <1>9, <1>10 DEF OInv

LEMMA SkipInactiveStep ==
  ASSUME OInv, NEW r \in Row, SkipInactive(r)  PROVE OInv'
  <1>. DEFINE n == worker.attempts[r]
              row == Failure(outbox[r], n)
  <1>1. r \in worker.batch /\ worker.cur = {} /\ n \in Nat /\ n < MaxAttempts
        /\ outbox[r] \in StoredRow
    BY CountsAreNat DEF OInv, WorkerOK, SkipInactive, RowOK, TypeOK
  <1>2. outbox[r].there => ~outbox[r].delivered /\ ~outbox[r].dead
    BY <1>1 DEF OInv, RowOK, Pending
  <1>3. /\ row \in StoredRow
        /\ ~outbox[r].there => row = outbox[r]
        /\ outbox[r].there => /\ row.there /\ ~row.delivered
                              /\ row.attempts = n + 1
                              /\ row.dead <=> n + 1 >= MaxAttempts
    <2>. HIDE DEF n
    <2>. QED BY <1>1, <1>2, FailureRow
  <1>4. Mark(r, row) /\ worker' = Done(r)
    BY DEF SkipInactive
  <1>5. turns' \in [Row -> Nat] /\ turns'[r] = turns[r] + 1
        /\ \A q \in Row \ {r} : turns'[q] = turns[q]
    BY DEF OInv, TypeOK, SkipInactive
  <1>6. /\ UNCHANGED <<subs, received, refused, test>>
        /\ logged' = logged /\ lapsed' = lapsed /\ producer' = producer
    BY DEF SkipInactive
  <1>. HIDE DEF row
  <1>. QED BY <1>1, <1>3, <1>4, <1>5, <1>6, TurnEnds

LEMMA SettleStep ==
  ASSUME OInv, NEW r \in Row, Settle(r)  PROVE OInv'
  <1>. DEFINE row == AfterSend(r)
  <1>1. /\ worker.pc = "mark" /\ worker.cur = {r} /\ r \in worker.batch
        /\ Mark(r, row) /\ worker' = Done(r)
    BY DEF OInv, WorkerOK, Settle
  <1>2. /\ row \in StoredRow
        /\ ~outbox[r].there => row = outbox[r]
        /\ outbox[r].there =>
             /\ row.there
             /\ \/ row.delivered /\ r \in received /\ ~row.dead
                \/ ~row.delivered /\ row.dead /\ r \in refused
                \/ /\ ~row.delivered /\ row.attempts = worker.attempts[r] + 1
                   /\ row.dead <=> worker.attempts[r] + 1 >= MaxAttempts
    BY <1>1, AfterSendRow
  <1>3. /\ UNCHANGED <<subs, received, refused, test, lapsed, producer, turns>>
        /\ \/ logged' = logged
           \/ outbox[r].there /\ logged' = logged \cup {r}
    BY DEF Settle
  <1>4. turns' \in [Row -> Nat] /\ turns'[r] = turns[r]
        /\ \A q \in Row \ {r} : turns'[q] = turns[q]
    BY <1>3 DEF OInv, TypeOK
  <1>. HIDE DEF row
  <1>. QED BY <1>1, <1>2, <1>3, <1>4, TurnEnds

LEMMA SkipLapsedStep ==
  ASSUME OInv, NEW r \in Row, SkipLapsed(r)  PROVE OInv'
  <1>1. /\ r \in worker.batch /\ worker.cur = {} /\ worker \in WorkerType
        /\ outbox[r] \in StoredRow
    BY DEF OInv, TypeOK, WorkerOK, SkipLapsed, WorkerType
  <1>2. /\ worker' \in WorkerType
        /\ worker'.pc = "loop" /\ worker'.cur = {} /\ worker'.outcome = "none"
        /\ worker'.batch = worker.batch \ {r}
        /\ worker'.active = worker.active \ {r}
        /\ \A q \in Row \ {r} : worker'.attempts[q] = worker.attempts[q]
    BY <1>1, DoneFields DEF SkipLapsed
  <1>3. /\ outbox' \in [Row -> StoredRow]
        /\ \A q \in Row \ {r} : outbox'[q] = outbox[q]
        /\ outbox'[r].there = outbox[r].there /\ outbox'[r].dead = outbox[r].dead
        /\ outbox'[r].delivered = outbox[r].delivered
        /\ outbox'[r].attempts = outbox[r].attempts
        /\ ~outbox[r].there => outbox'[r] = outbox[r]
    <2>. DEFINE x == [outbox[r] EXCEPT !.due = FALSE]
    <2>1. /\ x \in StoredRow /\ x.there = outbox[r].there
          /\ x.delivered = outbox[r].delivered /\ x.dead = outbox[r].dead
          /\ x.attempts = outbox[r].attempts
      BY SetDue, Zenon DEF OInv, TypeOK
    <2>2. ~outbox[r].there => x = outbox[r]
      BY RowValues DEF OInv, TypeOK, NoRow
    <2>3. outbox' = [outbox EXCEPT ![r] = x] \/ outbox' = outbox
      BY DEF SkipLapsed
    <2>. HIDE DEF x
    <2>. QED BY <2>1, <2>2, <2>3, <1>1 DEF OInv, TypeOK
  <1>4. TypeOK'
    <2>1. faults' \in Nat
      BY DEF OInv, TypeOK, SkipLapsed, Fault
    <2>2. \A q \in Row : outbox'[q].there \/ outbox'[q] = NoRow
      BY <1>3 DEF OInv, TypeOK
    <2>. QED BY <2>1, <2>2, <1>2, <1>3 DEF OInv, TypeOK, SkipLapsed, history, WorkerType
  <1>5. WorkerOK'
    BY <1>2 DEF OInv, WorkerOK, SkipLapsed
  <1>6. ASSUME NEW q \in Row, q # r  PROVE Same(q)
    BY <1>2, <1>3, <1>6, <1>1 DEF Same, SkipLapsed, history
  <1>7. Pending(r)' <=> Pending(r)
    BY <1>3 DEF Pending
  <1>8. RowOK(r)' /\ CountOK(r)'
    <2>1. RowOK(r) /\ CountOK(r)
      BY DEF OInv
    <2>2. UNCHANGED <<subs, logged, turns, unmarked, refused>>
      BY DEF SkipLapsed, history
    <2>3. Pending(r) => outbox[r].attempts = worker.attempts[r]
      BY <2>1, <1>1 DEF RowOK, Pending
    <2>4. ~outbox[r].there => subs[r[2]] = "deleted"
      BY <2>1, <1>1 DEF RowOK, Pending
    <2>5. RowOK(r)'
      BY <2>1, <2>2, <1>2, <1>3, <1>7 DEF RowOK
    <2>6. Pending(r) => /\ outbox[r].attempts <= turns[r]
                        /\ turns[r] <= outbox[r].attempts + unmarked[r]
      BY <2>1, <2>3, <1>1 DEF CountOK
    <2>7. CountOK(r)'
      BY <2>1, <2>2, <2>4, <2>6, <1>2, <1>3, <1>7 DEF CountOK
    <2>. QED BY <2>5, <2>7
  <1>9. ASSUME NEW q \in Row, q # r  PROVE RowOK(q)' /\ CountOK(q)'
    BY <1>9, <1>5, <1>6, RowFrame DEF OInv, WorkerOK
  <1>10. ASSUME NEW q \in TestKey \X Sub  PROVE TestOK(q)'
    <2>1. CASE q = r
      BY <2>1, <1>1, <1>2, <1>3 DEF OInv, TestOK, InFlight, SkipLapsed
    <2>2. CASE q # r
      BY <2>2, <1>6, TestFrame, RowParts DEF OInv, SkipLapsed
    <2>. QED BY <2>1, <2>2
  <1>. QED BY <1>4, <1>5, <1>8, <1>9, <1>10 DEF OInv

LEMMA SendStep ==
  ASSUME OInv, NEW r \in Row, Send(r)  PROVE OInv'
  <1>1. PICK outcome \in {"ok", "permanent", "transient"}, took \in BOOLEAN :
          /\ outcome = "ok" => took
          /\ received' = IF took THEN received \cup {r} ELSE received
          /\ worker' = [worker EXCEPT !.pc = "mark", !.cur = {r}, !.outcome = outcome]
          /\ refused' = IF outcome = "permanent" THEN refused \cup {r} ELSE refused
    BY DEF Send
  <1>2. r \in worker.batch /\ worker.cur = {} /\ worker \in WorkerType
    BY DEF OInv, TypeOK, WorkerOK, Send, WorkerType
  <1>3. /\ worker' \in WorkerType
        /\ worker'.pc = "mark" /\ worker'.cur = {r} /\ worker'.outcome = outcome
        /\ worker'.batch = worker.batch /\ worker'.active = worker.active
        /\ worker'.attempts = worker.attempts
    BY <1>1, <1>2 DEF WorkerType
  <1>4. /\ received \subseteq received' /\ received' \subseteq Row
        /\ refused \subseteq refused' /\ refused' \subseteq Row
        /\ outcome = "ok" => r \in received'
        /\ outcome = "permanent" => r \in refused'
    BY <1>1 DEF OInv, TypeOK
  <1>5. turns' \in [Row -> Nat] /\ turns'[r] = turns[r] + 1
        /\ \A q \in Row \ {r} : turns'[q] = turns[q]
    BY DEF OInv, TypeOK, Send
  <1>6. TypeOK'
    BY <1>3, <1>4, <1>5 DEF OInv, TypeOK, Send, WorkerType
  <1>7. WorkerOK'
    BY <1>2, <1>3, <1>4 DEF OInv, WorkerOK
  <1>8. ASSUME NEW q \in Row, q # r  PROVE Same(q)
    BY <1>2, <1>3, <1>4, <1>5, <1>8 DEF Same, Send
  <1>9. RowOK(r)'
    BY <1>2, <1>3 DEF OInv, RowOK, Send, Pending
  <1>10. CountOK(r)'
    <2>1. /\ turns[r] \in Nat /\ unmarked[r] \in Nat /\ worker.attempts[r] \in Nat
          /\ MaxAttempts \in Nat
      BY CountsAreNat, OutboxAssumption
    <2>2. /\ worker.attempts[r] < MaxAttempts /\ worker.attempts[r] <= turns[r]
          /\ turns[r] <= worker.attempts[r] + unmarked[r]
      BY <1>2 DEF OInv, RowOK, CountOK
    <2>3. ~outbox[r].there => subs[r[2]] = "deleted"
      BY <1>2 DEF OInv, RowOK, Pending
    <2>4. outbox[r].dead => r \in refused \/ turns[r] >= MaxAttempts
      BY DEF OInv, CountOK
    <2>5. /\ outbox' = outbox /\ subs' = subs /\ unmarked' = unmarked
      BY DEF Send
    <2>6. /\ turns'[r] <= MaxAttempts + unmarked[r]
          /\ worker.attempts[r] + 1 <= turns'[r]
          /\ turns'[r] <= worker.attempts[r] + 1 + unmarked[r]
      BY <2>1, <2>2, <1>5
    <2>7. outbox[r].dead => r \in refused' \/ turns'[r] >= MaxAttempts
      BY <2>1, <2>4, <1>4, <1>5
    <2>. QED BY <2>3, <2>5, <2>6, <2>7, <1>2, <1>3 DEF CountOK
  <1>11. ASSUME NEW q \in Row, q # r  PROVE RowOK(q)' /\ CountOK(q)'
    BY <1>11, <1>7, <1>8, RowFrame DEF OInv, WorkerOK
  <1>12. ASSUME NEW q \in TestKey \X Sub  PROVE TestOK(q)'
    <2>1. CASE q = r
      BY <2>1, <1>2, <1>3, <1>4 DEF OInv, TestOK, InFlight, Send
    <2>2. CASE q # r
      BY <2>2, <1>8, <1>4, TestFrame, RowParts DEF OInv, Send
    <2>. QED BY <2>1, <2>2
  <1>. QED BY <1>6, <1>7, <1>9, <1>10, <1>11, <1>12 DEF OInv

-----------------------------------------------------------------------------
(* Test sends *)

LEMMA TestStoreStep ==
  ASSUME OInv, NEW r \in TestKey \X Sub, TestStore(r)  PROVE OInv'
  <1>1. /\ r \in Row /\ r \notin worker.batch /\ ~outbox[r].there
        /\ subs[r[2]] = "active" /\ worker.cur \subseteq worker.batch
        /\ turns[r] = 0 /\ unmarked[r] \in Nat
    BY RowParts, CountsAreNat DEF OInv, TestOK, TestStore, WorkerOK, CountOK
  <1>2. /\ outbox' \in [Row -> StoredRow]
        /\ \A q \in Row \ {r} : outbox'[q] = outbox[q]
        /\ outbox'[r] = Parked
    BY <1>1, RowValues DEF OInv, TypeOK, TestStore
  <1>3. /\ test' \in [TestKey \X Sub -> {"new", "sending", "ok", "failed", "done"}]
        /\ test'[r] = "sending"
        /\ \A q \in (TestKey \X Sub) \ {r} : test'[q] = test[q]
    BY DEF OInv, TypeOK, TestStore
  <1>4. TypeOK'
    <2>1. \A q \in Row : outbox'[q].there \/ outbox'[q] = NoRow
      BY <1>2, RowValues DEF OInv, TypeOK
    <2>. QED BY <2>1, <1>2, <1>3 DEF OInv, TypeOK, TestStore, history
  <1>5. WorkerOK'
    BY DEF OInv, WorkerOK, TestStore, history
  <1>6. ASSUME NEW q \in Row, q # r  PROVE Same(q)
    BY <1>2, <1>6 DEF Same, TestStore, history
  <1>7. Pending(r)' /\ outbox'[r].there /\ outbox'[r].attempts = 0 /\ ~outbox'[r].dead
        /\ ~outbox'[r].due
    BY <1>2, RowValues DEF Pending
  <1>8. RowOK(r)'
    BY <1>1, <1>7, OutboxAssumption DEF RowOK, TestStore
  <1>9. CountOK(r)'
    BY <1>1, <1>7, OutboxAssumption DEF CountOK, TestStore, history
  <1>10. TestOK(r)'
    BY <1>1, <1>3, <1>7 DEF TestOK, TestStore
  <1>11. ASSUME NEW q \in Row, q # r  PROVE RowOK(q)' /\ CountOK(q)'
    BY <1>11, <1>5, <1>6, RowFrame DEF OInv, WorkerOK
  <1>12. ASSUME NEW q \in TestKey \X Sub, q # r  PROVE TestOK(q)'
    BY <1>12, <1>3, <1>6, TestFrame, RowParts DEF OInv, TestStore
  <1>. QED BY <1>4, <1>5, <1>8, <1>9, <1>10, <1>11, <1>12 DEF OInv

LEMMA TestSendStep ==
  ASSUME OInv, NEW r \in TestKey \X Sub, TestSend(r)  PROVE OInv'
  <1>1. PICK ok \in BOOLEAN, took \in BOOLEAN :
          /\ ok => took
          /\ received' = IF took THEN received \cup {r} ELSE received
          /\ test' = [test EXCEPT ![r] = IF ok THEN "ok" ELSE "failed"]
          /\ refused' = IF ok THEN refused ELSE refused \cup {r}
    BY DEF TestSend
  <1>2. r \in Row
    BY RowParts
  <1>3. /\ received \subseteq received' /\ received' \subseteq Row
        /\ refused \subseteq refused' /\ refused' \subseteq Row
    BY <1>1, <1>2 DEF OInv, TypeOK
  <1>4. /\ test' \in [TestKey \X Sub -> {"new", "sending", "ok", "failed", "done"}]
        /\ \A q \in (TestKey \X Sub) \ {r} : test'[q] = test[q]
        /\ \/ test'[r] = "ok" /\ r \in received'
           \/ test'[r] = "failed" /\ r \in refused'
    <2>1. CASE ok
      BY <2>1, <1>1 DEF OInv, TypeOK
    <2>2. CASE ~ok
      BY <2>2, <1>1 DEF OInv, TypeOK
    <2>. QED BY <2>1, <2>2
  <1>5. TypeOK'
    BY <1>3, <1>4 DEF OInv, TypeOK, TestSend
  <1>6. WorkerOK'
    BY <1>3 DEF OInv, WorkerOK, TestSend
  <1>7. ASSUME NEW q \in Row  PROVE Same(q)
    BY <1>3 DEF Same, TestSend
  <1>8. TestOK(r)'
    BY <1>4, <1>2 DEF OInv, TestOK, TestSend, InFlight, Pending
  <1>9. ASSUME NEW q \in TestKey \X Sub, q # r  PROVE TestOK(q)'
    BY <1>9, <1>3, <1>4, <1>7, TestFrame, RowParts DEF OInv
  <1>10. ASSUME NEW q \in Row  PROVE RowOK(q)' /\ CountOK(q)'
    BY <1>6, <1>7, RowFrame DEF OInv, WorkerOK
  <1>. QED BY <1>5, <1>6, <1>8, <1>9, <1>10 DEF OInv

(* The row of a test that is over. *)
LEMMA TestSettledIn ==
  ASSUME OInv, NEW r \in TestKey \X Sub, TestSettle(r)
  PROVE  /\ r \in Row /\ r \notin worker.batch
         /\ outbox' \in [Row -> StoredRow]
         /\ \A q \in Row \ {r} : outbox'[q] = outbox[q]
         /\ ~outbox[r].there => outbox'[r] = outbox[r] /\ subs[r[2]] = "deleted"
         /\ outbox[r].there =>
              /\ outbox'[r].there
              /\ Pending(r)
              /\ \/ outbox'[r].delivered /\ r \in received /\ ~outbox'[r].dead
                 \/ outbox'[r].dead /\ ~outbox'[r].delivered /\ r \in refused
  <1>. DEFINE ok == test[r] = "ok"
              x == TestSettled(outbox[r], ok)
  <1>1. /\ r \in Row /\ r \notin worker.batch /\ outbox[r] \in StoredRow
        /\ subs[r[2]] = "deleted" \/ Pending(r)
        /\ ok => r \in received
        /\ ~ok => r \in refused
        /\ ok \in BOOLEAN
    BY RowParts DEF OInv, TypeOK, TestOK, TestSettle, InFlight
  <1>2. /\ x \in StoredRow
        /\ ~outbox[r].there => x = outbox[r]
        /\ outbox[r].there => /\ x.there
                              /\ ok => x.delivered /\ x.dead = outbox[r].dead
                              /\ ~ok => x.dead /\ x.delivered = outbox[r].delivered
    <2>. HIDE DEF ok
    <2>. QED BY <1>1, TestSettledRow
  <1>3. outbox' = [outbox EXCEPT ![r] = x]
    BY DEF TestSettle
  <1>4. subs[r[2]] = "deleted" => ~outbox[r].there
    BY <1>1 DEF OInv, RowOK
  <1>. HIDE DEF x, ok
  <1>5. outbox' \in [Row -> StoredRow] /\ outbox'[r] = x
        /\ \A q \in Row \ {r} : outbox'[q] = outbox[q]
    BY <1>1, <1>2, <1>3 DEF OInv, TypeOK
  <1>6. outbox[r].there => Pending(r)
    BY <1>1, <1>4
  <1>7. ~outbox[r].there => subs[r[2]] = "deleted"
    BY <1>1 DEF Pending
  <1>8. outbox[r].there =>
          \/ x.delivered /\ r \in received /\ ~x.dead
          \/ x.dead /\ ~x.delivered /\ r \in refused
    <2>1. CASE ok
      BY <2>1, <1>1, <1>2, <1>6, Zenon DEF Pending
    <2>2. CASE ~ok
      BY <2>2, <1>1, <1>2, <1>6, Zenon DEF Pending
    <2>. QED BY <2>1, <2>2, <1>1
  <1>. QED BY <1>1, <1>2, <1>5, <1>6, <1>7, <1>8

LEMMA TestSettleStep ==
  ASSUME OInv, NEW r \in TestKey \X Sub, TestSettle(r)  PROVE OInv'
  <1>1. /\ r \in Row /\ r \notin worker.batch
        /\ outbox' \in [Row -> StoredRow]
        /\ \A q \in Row \ {r} : outbox'[q] = outbox[q]
        /\ ~outbox[r].there => outbox'[r] = outbox[r] /\ subs[r[2]] = "deleted"
        /\ outbox[r].there =>
             /\ outbox'[r].there
             /\ Pending(r)
             /\ \/ outbox'[r].delivered /\ r \in received /\ ~outbox'[r].dead
                \/ outbox'[r].dead /\ ~outbox'[r].delivered /\ r \in refused
    BY TestSettledIn
  <1>2. /\ test' \in [TestKey \X Sub -> {"new", "sending", "ok", "failed", "done"}]
        /\ test'[r] = "done"
        /\ \A q \in (TestKey \X Sub) \ {r} : test'[q] = test[q]
    BY DEF OInv, TypeOK, TestSettle
  <1>3. \/ logged' = logged
        \/ outbox[r].there /\ logged' = logged \cup {r}
    <2>1. logged' = IF outbox[r].there THEN logged \cup {r} ELSE logged
      BY DEF TestSettle
    <2>. QED BY <2>1, Zenon
  <1>4. TypeOK'
    <2>1. \A q \in Row : outbox'[q].there \/ outbox'[q] = NoRow
      BY <1>1 DEF OInv, TypeOK
    <2>. QED BY <2>1, <1>1, <1>2, <1>3 DEF OInv, TypeOK, TestSettle, history
  <1>5. WorkerOK'
    BY DEF OInv, WorkerOK, TestSettle, history
  <1>6. ASSUME NEW q \in Row, q # r  PROVE Same(q)
    BY <1>1, <1>3, <1>6 DEF Same, TestSettle, history
  <1>7. outbox[r].there => ~Pending(r)'
    BY <1>1 DEF Pending
  <1>8. ~outbox[r].there => ~Pending(r)'
    BY <1>1 DEF Pending
  <1>9. RowOK(r)'
    BY <1>1, <1>3, <1>7, <1>8 DEF OInv, RowOK, TestSettle
  <1>10. CountOK(r)'
    <2>1. worker.cur \subseteq worker.batch /\ CountOK(r)
      BY <1>1 DEF OInv, WorkerOK
    <2>. QED BY <2>1, <1>1, <1>7, <1>8 DEF CountOK, TestSettle, history
  <1>11. TestOK(r)'
    BY <1>2, <1>1 DEF TestOK, InFlight
  <1>12. ASSUME NEW q \in Row, q # r  PROVE RowOK(q)' /\ CountOK(q)'
    BY <1>12, <1>5, <1>6, RowFrame DEF OInv, WorkerOK
  <1>13. ASSUME NEW q \in TestKey \X Sub, q # r  PROVE TestOK(q)'
    BY <1>13, <1>2, <1>6, TestFrame, RowParts DEF OInv, TestSettle
  <1>. QED BY <1>4, <1>5, <1>9, <1>10, <1>11, <1>12, <1>13 DEF OInv

LEMMA TestLostStep ==
  ASSUME OInv, NEW r \in TestKey \X Sub, TestLost(r)  PROVE OInv'
  <1>1. /\ test' \in [TestKey \X Sub -> {"new", "sending", "ok", "failed", "done"}]
        /\ test'[r] = "done"
        /\ \A q \in (TestKey \X Sub) \ {r} : test'[q] = test[q]
    BY DEF OInv, TypeOK, TestLost
  <1>2. TypeOK'
    BY <1>1 DEF OInv, TypeOK, TestLost, Fault, history
  <1>3. WorkerOK'
    BY DEF OInv, WorkerOK, TestLost, history
  <1>4. ASSUME NEW q \in Row  PROVE Same(q)
    BY DEF Same, TestLost, history
  <1>5. TestOK(r)'
    BY <1>1 DEF TestOK, InFlight
  <1>6. ASSUME NEW q \in TestKey \X Sub, q # r  PROVE TestOK(q)'
    BY <1>6, <1>1, <1>4, TestFrame, RowParts DEF OInv, TestLost
  <1>7. ASSUME NEW q \in Row  PROVE RowOK(q)' /\ CountOK(q)'
    BY <1>3, <1>4, RowFrame DEF OInv, WorkerOK
  <1>. QED BY <1>2, <1>3, <1>5, <1>6, <1>7 DEF OInv

-----------------------------------------------------------------------------
LEMMA OInvStep == OInv /\ [Next]_vars => OInv'
  <1>. SUFFICES ASSUME OInv, [Next]_vars  PROVE OInv'
    OBVIOUS
  <1>1. ASSUME NEW p \in Producer, InsertRows(p) \/ \E k \in Key : Lookup(p, k)  PROVE OInv'
    BY <1>1, InsertStep, LookupStep
  <1>2. ASSUME NEW s \in Sub, Pause(s) \/ Delete(s)  PROVE OInv'
    BY <1>2, PauseStep, DeleteStep
  <1>3. CASE Lapse
    BY <1>3, LapseStep
  <1>4. ASSUME NEW r \in Row, ComeDue(r) \/ Resend(r) \/ WorkerStep(r)  PROVE OInv'
    BY <1>4, ComeDueStep, ResendStep, SkipInactiveStep, SkipLapsedStep, SendStep, SettleStep
       DEF WorkerStep
  <1>5. CASE Fetch \/ EndTick \/ WorkerCrash
    BY <1>5, FetchStep, EndTickStep, WorkerCrashStep
  <1>6. ASSUME NEW r \in TestKey \X Sub,
               TestStore(r) \/ TestSend(r) \/ TestSettle(r) \/ TestLost(r)
        PROVE  OInv'
    BY <1>6, TestStoreStep, TestSendStep, TestSettleStep, TestLostStep
  <1>7. CASE UNCHANGED vars
    <2>1. TypeOK' /\ WorkerOK'
      BY <1>7 DEF OInv, TypeOK, WorkerOK, vars
    <2>2. \A q \in Row : Same(q)
      BY <1>7 DEF Same, vars
    <2>. QED BY <1>7, <2>1, <2>2, EveryRowSame DEF vars
  <1>. QED BY <1>1, <1>2, <1>3, <1>4, <1>5, <1>6, <1>7 DEF Next

LEMMA OInvAlways == Spec => []OInv
  BY OInvInit, OInvStep, PTL DEF Spec

(* Tables, the batch in hand and the history are well typed in every reachable
   state, whatever the batch and the number of attempts (markFailure's attempts
   never run past 100). *)
THEOREM OutboxTypeCorrect == Spec => []TypeOK
  <1>1. OInv => TypeOK
    BY DEF OInv
  <1>. QED BY <1>1, OInvAlways, PTL

(* An event is dead only when it was refused for good or had all its turns
   (markFailure). *)
THEOREM DeadWasEarned == Spec => []DeadIsEarned
  <1>1. OInv => DeadIsEarned
    BY DEF OInv, CountOK, DeadIsEarned
  <1>. QED BY <1>1, OInvAlways, PTL

(* No event takes more turns than its attempts and the turns whose outcome could
   not be stored (fetchPendingDeliveries, markFailure). *)
THEOREM WorkerGivesUp == Spec => []GivesUp
  <1>1. OInv => GivesUp
    BY DEF OInv, CountOK, GivesUp
  <1>. QED BY <1>1, OInvAlways, PTL

-----------------------------------------------------------------------------
(* The refinement *)

Deleted(q) == subs[q[2]] = "deleted"

StatusRight(q) ==
  /\ Deleted(q) => Status[q] = "gone"
  /\ ~outbox[q].there /\ ~Deleted(q) => Status[q] = "none"
  /\ Pending(q) => Status[q] = "pending"
  /\ outbox[q].there /\ outbox[q].delivered => Status[q] = "delivered"
  /\ outbox[q].there /\ outbox[q].dead /\ ~outbox[q].delivered => Status[q] = "dead"

StatusAllRight == \A q \in Row : StatusRight(q)

LEMMA StatusIs == OInv => StatusAllRight
  <1>. SUFFICES ASSUME OInv, NEW q \in Row  PROVE StatusRight(q)
    BY DEF StatusAllRight
  <1>1. Deleted(q) => ~outbox[q].there
    BY DEF OInv, RowOK, Deleted
  <1>2. ~outbox[q].there => ~outbox[q].delivered /\ ~outbox[q].dead
    BY RowValues DEF OInv, TypeOK
  <1>3. Status[q] = StatusOf(q)
    BY DEF Status
  <1>. QED BY <1>1, <1>2, <1>3 DEF StatusOf, StatusRight, Pending, Deleted

LEMMA StatusIsNext == OInv' => StatusAllRight'
  BY StatusIs, PTL

(* A row whose stored state is as before has the status it had. *)
Kept(q) ==
  /\ outbox'[q].there = outbox[q].there /\ outbox'[q].delivered = outbox[q].delivered
  /\ outbox'[q].dead = outbox[q].dead
  /\ Deleted(q)' <=> Deleted(q)

LEMMA StatusKept ==
  ASSUME OInv, OInv', NEW q \in Row, Kept(q)
  PROVE  Status'[q] = Status[q]
  <1>1. StatusRight(q) /\ StatusRight(q)'
    BY StatusIs, StatusIsNext DEF StatusAllRight
  <1>2. Pending(q)' <=> Pending(q)
    BY DEF Kept, Pending
  <1>. QED BY <1>1, <1>2 DEF StatusRight, Kept, Pending

LEMMA StatusFun == DOMAIN Status = Row /\ Status = [q \in Row |-> Status[q]]
  BY DEF Status

LEMMA StatusFunNext == DOMAIN Status' = Row /\ Status' = [q \in Row |-> Status'[q]]
  BY DEF Status

PStep == [Promise!Next]_(Promise!vars)

(* The shapes of a step of the promise. *)
LEMMA NoChange ==
  ASSUME OInv, OInv', \A q \in Row : Kept(q), received' = received
  PROVE  PStep
  <1>1. Status' = Status
    BY StatusKept DEF Status
  <1>. QED BY <1>1 DEF PStep, Promise!vars

LEMMA Taking ==
  ASSUME OInv, OInv', \A q \in Row : Kept(q), NEW r \in Row,
         outbox[r].there \/ Deleted(r),
         received' = received \/ received' = received \cup {r}
  PROVE  PStep
  <1>1. Status' = Status
    BY StatusKept DEF Status
  <1>2. Status[r] # "none"
    BY StatusIs DEF StatusAllRight, StatusRight, Pending
  <1>3. CASE received' = received
    BY <1>1, <1>3 DEF PStep, Promise!vars
  <1>4. CASE received' = received \cup {r}
    BY <1>1, <1>2, <1>4 DEF PStep, Promise!Next, Promise!Take
  <1>. QED BY <1>3, <1>4

(* One row settles: it stays pending, is delivered after its receiver took it, or
   dies. *)
LEMMA Settling ==
  ASSUME OInv, OInv', NEW r \in Row, \A q \in Row \ {r} : Kept(q),
         received' = received, subs' = subs,
         \/ Kept(r)
         \/ /\ Pending(r) /\ outbox'[r].there
            /\ \/ Pending(r)'
               \/ outbox'[r].delivered /\ r \in received
               \/ outbox'[r].dead /\ ~outbox'[r].delivered
  PROVE  PStep
  <1>1. \A q \in Row \ {r} : Status'[q] = Status[q]
    BY StatusKept
  <1>2. StatusRight(r) /\ StatusRight(r)'
    BY StatusIs, StatusIsNext DEF StatusAllRight
  <1>3. Status' = [Status EXCEPT ![r] = Status'[r]]
    BY <1>1, StatusFun, StatusFunNext
  <1>4. CASE Kept(r)
    BY <1>4, NoChange
  <1>5. CASE Pending(r) /\ Pending(r)'
    <2>1. Status'[r] = Status[r]
      BY <1>2, <1>5 DEF StatusRight
    <2>2. Status' = Status
      BY <1>1, <2>1, StatusFun, StatusFunNext
    <2>. QED BY <2>2 DEF PStep, Promise!vars
  <1>6. CASE Pending(r) /\ outbox'[r].there /\ outbox'[r].delivered /\ r \in received
    <2>1. Status[r] = "pending" /\ Status'[r] = "delivered"
      BY <1>2, <1>6 DEF StatusRight
    <2>. QED BY <2>1, <1>3, <1>6 DEF PStep, Promise!Next, Promise!Deliver
  <1>7. CASE Pending(r) /\ outbox'[r].there /\ outbox'[r].dead /\ ~outbox'[r].delivered
    <2>1. Status[r] = "pending" /\ Status'[r] = "dead"
      BY <1>2, <1>7 DEF StatusRight
    <2>. QED BY <2>1, <1>3 DEF PStep, Promise!Next, Promise!Bury
  <1>. QED BY <1>4, <1>5, <1>6, <1>7

LEMMA DueKept ==
  ASSUME OInv, NEW r \in Row, NEW b \in BOOLEAN, outbox' = [outbox EXCEPT ![r].due = b],
         subs' = subs
  PROVE  \A q \in Row : Kept(q)
  <1>. DEFINE x == [outbox[r] EXCEPT !.due = b]
  <1>1. /\ x.there = outbox[r].there /\ x.delivered = outbox[r].delivered
        /\ x.dead = outbox[r].dead
    <2>1. outbox[r] \in StoredRow
      BY DEF OInv, TypeOK
    <2>. QED BY <2>1 DEF StoredRow
  <1>2. outbox' = [outbox EXCEPT ![r] = x]
    OBVIOUS
  <1>. HIDE DEF x
  <1>. QED BY <1>1, <1>2 DEF OInv, TypeOK, Kept, Deleted

LEMMA InsertKeeps ==
  ASSUME OInv, OInv', NEW p \in Producer, InsertRows(p)  PROVE PStep
  <1>. DEFINE R == producer[p].rows
              S == {r \in R : ~outbox[r].there}
  <1>1. R \subseteq Row
    BY RowParts DEF OInv, TypeOK
  <1>2. subs' = subs /\ received' = received
    BY DEF InsertRows
  <1>3. CASE outbox' = outbox
    <2>1. \A q \in Row : Kept(q)
      BY <1>2, <1>3 DEF Kept, Deleted
    <2>. QED BY <2>1, <1>2, NoChange
  <1>4. CASE outbox' = Stored(R) /\ \A r \in R : ~Deleted(r)
    <2>1. \A q \in Row \ S : Kept(q)
      BY <1>2, <1>4 DEF Kept, Deleted, Stored
    <2>2. \A q \in S : outbox'[q] = NewRow
      BY <1>1, <1>4 DEF Stored
    <2>3. \A q \in S : ~outbox[q].there /\ ~Deleted(q) /\ Pending(q)'
      BY <1>4, <2>2, RowValues DEF Pending
    <2>4. \A q \in S : Status[q] = "none" /\ Status'[q] = "pending"
      BY <1>1, <2>3, StatusIs, StatusIsNext DEF StatusAllRight, StatusRight
    <2>5. \A q \in Row \ S : Status'[q] = Status[q]
      BY <2>1, StatusKept
    <2>6. Status' = [q \in Row |-> IF q \in S THEN "pending" ELSE Status[q]]
      BY <2>4, <2>5, StatusFunNext
    <2>7. Promise!Store(S)
      BY <2>4, <2>6, <1>2 DEF Promise!Store
    <2>. QED BY <2>7, <1>1 DEF PStep, Promise!Next
  <1>. QED BY <1>3, <1>4 DEF InsertRows, Deleted

LEMMA DeleteKeeps ==
  ASSUME OInv, OInv', NEW s \in Sub, Delete(s)  PROVE PStep
  <1>. DEFINE R == {r \in Row : r[2] = s}
  <1>1. /\ received' = received
        /\ \A q \in Row \ R : outbox'[q] = outbox[q] /\ subs'[q[2]] = subs[q[2]]
        /\ \A q \in R : Deleted(q)'
    BY RowParts DEF OInv, TypeOK, Delete, Deleted
  <1>2. \A q \in Row \ R : Status'[q] = Status[q]
    BY <1>1, StatusKept DEF Kept, Deleted
  <1>3. \A q \in R : Status'[q] = "gone"
    BY <1>1, StatusIsNext DEF StatusAllRight, StatusRight
  <1>4. Status' = [q \in Row |-> IF q \in R THEN "gone" ELSE Status[q]]
    BY <1>2, <1>3, StatusFunNext
  <1>5. Promise!Remove(R)
    BY <1>1, <1>4 DEF Promise!Remove
  <1>. QED BY <1>5 DEF PStep, Promise!Next

LEMMA TestStoreKeeps ==
  ASSUME OInv, OInv', NEW r \in TestKey \X Sub, TestStore(r)  PROVE PStep
  <1>1. r \in Row /\ received' = received /\ ~outbox[r].there /\ ~Deleted(r)
    BY RowParts DEF OInv, TestOK, TestStore, Deleted
  <1>2. /\ outbox'[r] = Parked
        /\ \A q \in Row \ {r} : Kept(q)
    BY <1>1 DEF OInv, TypeOK, TestStore, Kept, Deleted
  <1>3. Status[r] = "none" /\ Status'[r] = "pending"
    BY <1>1, <1>2, RowValues, StatusIs, StatusIsNext DEF StatusAllRight, StatusRight, Pending
  <1>4. \A q \in Row \ {r} : Status'[q] = Status[q]
    BY <1>2, StatusKept
  <1>5. Status' = [q \in Row |-> IF q \in {r} THEN "pending" ELSE Status[q]]
    BY <1>3, <1>4, StatusFunNext
  <1>6. Promise!Store({r})
    BY <1>1, <1>3, <1>5 DEF Promise!Store
  <1>. QED BY <1>1, <1>6 DEF PStep, Promise!Next

LEMMA WorkerKeeps ==
  ASSUME OInv, OInv', NEW r \in Row, WorkerStep(r)  PROVE PStep
  <1>1. CASE SkipInactive(r)
    <2>. DEFINE n == worker.attempts[r]
                row == Failure(outbox[r], n)
    <2>1. n \in Nat /\ n < MaxAttempts /\ outbox[r] \in StoredRow
          /\ r \in worker.batch
      BY <1>1, CountsAreNat DEF OInv, SkipInactive, RowOK, TypeOK
    <2>2. outbox[r].there => Pending(r)
      BY <2>1 DEF OInv, RowOK
    <2>3. /\ ~outbox[r].there => row = outbox[r]
          /\ outbox[r].there => row.there /\ row.delivered = outbox[r].delivered
      <3>. HIDE DEF n
      <3>. QED BY <2>1, FailureRow
    <2>4. row \in StoredRow
      <3>. HIDE DEF n
      <3>. QED BY <2>1, FailureRow
    <2>5. Mark(r, row) /\ subs' = subs /\ received' = received
      BY <1>1 DEF SkipInactive
    <2>. HIDE DEF row
    <2>6. /\ \A q \in Row \ {r} : outbox'[q] = outbox[q]
          /\ outbox'[r] = row \/ outbox'[r] = outbox[r]
      BY <2>4, <2>5, MarkRow DEF OInv
    <2>7. \A q \in Row \ {r} : Kept(q)
      BY <2>5, <2>6 DEF Kept, Deleted
    <2>8. CASE outbox'[r] = outbox[r] \/ ~outbox[r].there
      <3>1. Kept(r)
        BY <2>3, <2>5, <2>6, <2>8 DEF Kept, Deleted
      <3>. QED BY <3>1, <2>5, <2>7, Settling
    <2>9. CASE outbox'[r] = row /\ outbox[r].there
      <3>1. /\ Pending(r) /\ outbox'[r].there
            /\ Pending(r)' \/ (outbox'[r].dead /\ ~outbox'[r].delivered)
        BY <2>2, <2>3, <2>9 DEF Pending
      <3>. QED BY <3>1, <2>5, <2>7, Settling
    <2>. QED BY <2>6, <2>8, <2>9
  <1>2. CASE SkipLapsed(r)
    <2>1. /\ subs' = subs /\ received' = received
          /\ outbox' = [outbox EXCEPT ![r].due = FALSE] \/ outbox' = outbox
      BY <1>2 DEF SkipLapsed
    <2>2. \A q \in Row : Kept(q)
      BY <2>1, DueKept DEF Kept, Deleted
    <2>. QED BY <2>1, <2>2, NoChange
  <1>3. CASE Send(r)
    <2>1. \A q \in Row : Kept(q)
      BY <1>3 DEF Send, Kept, Deleted
    <2>2. outbox[r].there \/ Deleted(r)
      BY <1>3 DEF OInv, WorkerOK, RowOK, Send, Pending, Deleted
    <2>3. received' = received \/ received' = received \cup {r}
      BY <1>3 DEF Send
    <2>. QED BY <2>1, <2>2, <2>3, Taking
  <1>4. CASE Settle(r)
    <2>. DEFINE row == AfterSend(r)
    <2>1. worker.pc = "mark" /\ worker.cur = {r} /\ r \in worker.batch
          /\ Mark(r, row) /\ subs' = subs /\ received' = received
      BY <1>4 DEF OInv, WorkerOK, Settle
    <2>2. /\ row \in StoredRow
          /\ ~outbox[r].there => row = outbox[r]
          /\ outbox[r].there =>
               /\ row.there
               /\ \/ row.delivered /\ r \in received
                  \/ ~row.delivered
      BY <2>1, AfterSendRow
    <2>3. outbox[r].there => Pending(r)
      BY <2>1 DEF OInv, RowOK
    <2>. HIDE DEF row
    <2>4. /\ \A q \in Row \ {r} : outbox'[q] = outbox[q]
          /\ outbox'[r] = row \/ outbox'[r] = outbox[r]
      BY <2>1, <2>2, MarkRow DEF OInv
    <2>. QED BY <2>1, <2>2, <2>3, <2>4, Settling DEF Kept, Deleted, Pending
  <1>. QED BY <1>1, <1>2, <1>3, <1>4 DEF WorkerStep

LEMMA TestSettleKeeps ==
  ASSUME OInv, OInv', NEW r \in TestKey \X Sub, TestSettle(r)  PROVE PStep
  <1>1. /\ r \in Row
        /\ \A q \in Row \ {r} : outbox'[q] = outbox[q]
        /\ ~outbox[r].there => outbox'[r] = outbox[r]
        /\ outbox[r].there =>
             /\ outbox'[r].there
             /\ Pending(r)
             /\ \/ outbox'[r].delivered /\ r \in received
                \/ outbox'[r].dead /\ ~outbox'[r].delivered
    BY TestSettledIn
  <1>2. subs' = subs /\ received' = received
    BY DEF TestSettle
  <1>3. \A q \in Row \ {r} : Kept(q)
    BY <1>1, <1>2 DEF Kept, Deleted
  <1>4. ~outbox[r].there => Kept(r)
    BY <1>1, <1>2 DEF Kept, Deleted
  <1>. QED BY <1>1, <1>2, <1>3, <1>4, Settling

LEMMA TestSendKeeps ==
  ASSUME OInv, NEW r \in TestKey \X Sub, OInv', TestSend(r)  PROVE PStep
  <1>1. r \in Row
    BY RowParts
  <1>2. \A q \in Row : Kept(q)
    BY DEF TestSend, Kept, Deleted
  <1>3. outbox[r].there \/ Deleted(r)
    BY DEF OInv, TestOK, TestSend, InFlight, Pending, Deleted
  <1>4. received' = received \/ received' = received \cup {r}
    BY DEF TestSend
  <1>. QED BY <1>1, <1>2, <1>3, <1>4, Taking

LEMMA PromiseStep == OInv /\ OInv' /\ [Next]_vars => PStep
  <1>. SUFFICES ASSUME OInv, OInv', [Next]_vars  PROVE PStep
    OBVIOUS
  <1>1. ASSUME NEW p \in Producer, NEW k \in Key, Lookup(p, k)  PROVE PStep
    <2>1. \A q \in Row : Kept(q)
      BY <1>1 DEF Lookup, Kept, Deleted
    <2>. QED BY <1>1, <2>1, NoChange DEF Lookup
  <1>2. ASSUME NEW s \in Sub, Pause(s)  PROVE PStep
    <2>1. \A q \in Row : Kept(q)
      BY <1>2, RowParts DEF OInv, TypeOK, Pause, Kept, Deleted
    <2>. QED BY <1>2, <2>1, NoChange DEF Pause
  <1>3. CASE Lapse \/ Fetch \/ EndTick \/ WorkerCrash \/ UNCHANGED vars
    <2>1. /\ outbox' = outbox /\ subs' = subs /\ received' = received
      BY <1>3 DEF Lapse, Fetch, EndTick, WorkerCrash, vars
    <2>2. \A q \in Row : Kept(q)
      BY <2>1 DEF Kept, Deleted
    <2>. QED BY <2>1, <2>2, NoChange
  <1>4. ASSUME NEW r \in Row, ComeDue(r)  PROVE PStep
    <2>1. /\ outbox' = [outbox EXCEPT ![r].due = TRUE] /\ subs' = subs /\ received' = received
      BY <1>4 DEF ComeDue
    <2>2. \A q \in Row : Kept(q)
      BY <2>1, DueKept
    <2>. QED BY <2>1, <2>2, NoChange
  <1>5. ASSUME NEW r \in Row, Resend(r)  PROVE PStep
    <2>1. \A q \in Row : Kept(q)
      BY <1>5 DEF Resend, Kept, Deleted
    <2>2. outbox[r].there /\ received' = received \cup {r}
      BY <1>5 DEF OInv, RowOK, Resend
    <2>. QED BY <2>1, <2>2, Taking
  <1>6. ASSUME NEW r \in TestKey \X Sub, TestLost(r)  PROVE PStep
    <2>1. \A q \in Row : Kept(q)
      BY <1>6 DEF TestLost, Kept, Deleted
    <2>. QED BY <1>6, <2>1, NoChange DEF TestLost
  <1>. QED BY <1>1, <1>2, <1>3, <1>4, <1>5, <1>6, InsertKeeps, DeleteKeeps, WorkerKeeps,
             TestStoreKeeps, TestSendKeeps, TestSettleKeeps DEF Next

(* The outbox implements DeliveryPromise: a row is delivered only after its
   receiver took it, and delivered, dead and gone are final, for every number of
   producers, subscriptions, batches, test sends and faults. *)
THEOREM PromiseKept == Spec => KeepsPromise
  <1>1. Init => Promise!Init
    BY RowParts, RowValues DEF Init, Promise!Init, Status, StatusOf, Pending
  <1>2. OInv /\ OInv' /\ [Next]_vars => [Promise!Next]_(Promise!vars)
    BY PromiseStep DEF PStep
  <1>. QED BY <1>1, <1>2, OInvAlways, PTL DEF Spec, KeepsPromise, Promise!Spec
=============================================================================
