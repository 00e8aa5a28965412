------------------------- MODULE WebhookInboxProofs -------------------------
(***************************************************************************)
(* What holds of the inbound inbox for any deliveries, any number of       *)
(* sweeps at once, any batch size and any cap of two attempts or more: its *)
(* types, that nothing is given up on early, and that what was answered is *)
(* owed.                                                                   *)
(***************************************************************************)
EXTENDS WebhookInbox, SequenceTheorems, TLAPS

-----------------------------------------------------------------------------
\* The inductive invariant.

Owed(d) == d \in applied \/ Pending(d) \/ failures[d] >= MaxAttempts

\* A row counts no more attempts than its delivery has failed, and so does the
\* copy of it in a batch; a run that is about to be marked has had its effect, or
\* has failed once more than its copy counts.
RowFits(d) == inbox[d].attempts <= failures[d]

BatchFits(s) ==
  \A i \in DOMAIN sweep[s].batch : sweep[s].batch[i].attempts <= failures[sweep[s].batch[i].id]

MarkFits(s) ==
  sweep[s].pc = "mark" =>
    /\ sweep[s].batch # <<>>
    /\ sweep[s].outcome = "ok" => Row(s).id \in applied
    /\ sweep[s].outcome # "ok" => Row(s).attempts < failures[Row(s).id]

\* A held delivery is owed as soon as it is stored.
RequestFits(d) ==
  /\ request[d] = "enqueue" => d \notin Held /\ failures[d] > 0
  /\ request[d] = "mark" => d \in Held /\ d \in applied
  /\ d \in Held /\ request[d] \in {"working", "mark", "answered"} => Owed(d)

IInv ==
  /\ TypeOK /\ GivenUpIsEarned /\ AnsweredIsOwed
  /\ \A d \in Delivery : RowFits(d) /\ RequestFits(d)
  /\ \A s \in Sweep : BatchFits(s) /\ MarkFits(s)

-----------------------------------------------------------------------------
\* What every step keeps.

Requests == {"new", "working", "enqueue", "mark", "answered", "refused"}
SweepRec == [pc : {"idle", "loop", "mark"}, batch : Seq(BatchRow), outcome : {"none", "ok", "throw"}]

\* Effects and failures are only added.
Grows ==
  /\ failures' \in [Delivery -> 0..MaxAttempts]
  /\ \A d \in Delivery : failures[d] <= failures'[d]
  /\ applied \subseteq applied' /\ applied' \subseteq Delivery

\* A row that may be written: within the cap, no attempt too many, given up on only
\* when earned, and what it owed is owed.
GoodRow(d, row) ==
  /\ row \in StoredRow
  /\ row.status = "pending" => row.attempts < MaxAttempts
  /\ row.attempts <= failures[d]
  /\ row.status = "failed" => failures[d] >= MaxAttempts
  /\ Owed(d) => d \in applied \/ row.status = "pending" \/ failures[d] >= MaxAttempts

RowsKeep ==
  /\ inbox' \in [Delivery -> StoredRow]
  /\ \A d \in Delivery : /\ Pending(d)' => inbox'[d].attempts < MaxAttempts
                         /\ RowFits(d)'
                         /\ inbox'[d].status = "failed" => failures'[d] >= MaxAttempts
                         /\ Owed(d) => Owed(d)'

LEMMA Stock ==
  ASSUME TypeOK
  PROVE  /\ inbox \in [Delivery -> StoredRow] /\ queue \in Seq(Delivery)
         /\ request \in [Delivery -> Requests] /\ sweep \in [Sweep -> SweepRec]
         /\ failures \in [Delivery -> 0..MaxAttempts] /\ applied \subseteq Delivery
         /\ forgotten \subseteq Delivery /\ faults \in Nat
         /\ MaxAttempts \in Nat /\ MaxAttempts > 1 /\ BatchSize \in Nat
         /\ \A d \in Delivery : /\ inbox[d].attempts \in 0..MaxAttempts /\ failures[d] \in 0..MaxAttempts
                                /\ Pending(d) => inbox[d].attempts < MaxAttempts
  BY InboxAssumption DEF TypeOK, Requests, SweepRec, StoredRow

LEMMA BatchRows ==
  ASSUME TypeOK, NEW s \in Sweep
  PROVE  /\ sweep[s].batch \in Seq(BatchRow) /\ Len(sweep[s].batch) \in Nat
         /\ DOMAIN sweep[s].batch = 1..Len(sweep[s].batch)
         /\ \A i \in 1..Len(sweep[s].batch) :
              /\ sweep[s].batch[i].id \in Delivery
              /\ sweep[s].batch[i].attempts \in Nat /\ sweep[s].batch[i].attempts < MaxAttempts
  <1>. DEFINE batch == sweep[s].batch
  <1>1. batch \in Seq(BatchRow)
    BY Stock DEF SweepRec
  <1>. HIDE DEF batch
  <1>2. Len(batch) \in Nat /\ DOMAIN batch = 1..Len(batch)
        /\ \A i \in 1..Len(batch) : batch[i] \in BatchRow
    BY <1>1
  <1>3. \A row \in BatchRow : row.id \in Delivery /\ row.attempts \in Nat /\ row.attempts < MaxAttempts
    BY Stock DEF BatchRow
  <1>. QED BY <1>1, <1>2, <1>3 DEF batch

LEMMA NothingGrows ==
  ASSUME TypeOK, UNCHANGED <<applied, failures>>
  PROVE  Grows
  BY Stock DEF Grows

LEMMA RunFacts ==
  ASSUME TypeOK, NEW d \in Delivery, NEW outcome \in {"ok", "throw"}, NEW effect \in BOOLEAN,
         Run(d, outcome, effect)
  PROVE  /\ Grows
         /\ outcome = "ok" => d \in applied'
         /\ outcome = "throw" => \A n \in Nat : n <= failures[d] /\ n < MaxAttempts => n < failures'[d]
  <1>1. /\ failures \in [Delivery -> 0..MaxAttempts] /\ MaxAttempts \in Nat /\ applied \subseteq Delivery
        /\ \A e \in Delivery : failures[e] \in 0..MaxAttempts
    BY Stock
  <1>2. applied \subseteq applied' /\ applied' \subseteq Delivery /\ (outcome = "ok" => d \in applied')
    BY <1>1 DEF Run
  <1>3. CASE outcome = "throw" /\ failures[d] < MaxAttempts
    <2>1. failures' = [failures EXCEPT ![d] = failures[d] + 1]
      BY <1>3 DEF Run
    <2>. QED BY <1>1, <1>2, <1>3, <2>1 DEF Grows
  <1>4. CASE ~(outcome = "throw" /\ failures[d] < MaxAttempts)
    <2>1. failures' = failures
      BY <1>4 DEF Run
    <2>. QED BY <1>1, <1>2, <1>4, <2>1 DEF Grows
  <1>. QED BY <1>3, <1>4

LEMMA RowsRest ==
  ASSUME IInv, Grows, inbox' = inbox
  PROVE  RowsKeep
  <1>1. TypeOK /\ GivenUpIsEarned /\ \A d \in Delivery : RowFits(d)
    BY DEF IInv
  <1>2. \A d \in Delivery : /\ failures'[d] \in 0..MaxAttempts /\ failures[d] <= failures'[d]
    BY DEF Grows
  <1>. QED BY <1>1, <1>2, Stock DEF RowsKeep, Grows, Owed, Pending, RowFits, GivenUpIsEarned

LEMMA RowWritten ==
  ASSUME IInv, NEW d \in Delivery, NEW row, GoodRow(d, row),
         inbox' = [inbox EXCEPT ![d] = row], UNCHANGED <<applied, failures>>
  PROVE  RowsKeep
  <1>1. TypeOK /\ GivenUpIsEarned /\ \A e \in Delivery : RowFits(e)
    BY DEF IInv
  <1>2. /\ inbox' \in [Delivery -> StoredRow] /\ inbox'[d] = row
        /\ \A e \in Delivery \ {d} : inbox'[e] = inbox[e]
    BY <1>1, Stock DEF GoodRow
  <1>. SUFFICES ASSUME NEW e \in Delivery
       PROVE  /\ Pending(e)' => inbox'[e].attempts < MaxAttempts
              /\ RowFits(e)'
              /\ inbox'[e].status = "failed" => failures'[e] >= MaxAttempts
              /\ Owed(e) => Owed(e)'
    BY <1>2 DEF RowsKeep
  <1>3. CASE e = d
    BY <1>2, <1>3 DEF GoodRow, Owed, Pending, RowFits
  <1>4. CASE e # d
    BY <1>1, <1>2, <1>4, Stock DEF Owed, Pending, RowFits, GivenUpIsEarned
  <1>. QED BY <1>3, <1>4

\* What the marks write is good: a row is closed once its effect is stored, and its
\* attempts are those of a copy that had failed less often.
LEMMA ProcessedGood ==
  ASSUME IInv, NEW d \in Delivery, d \in applied
  PROVE  GoodRow(d, Processed(inbox[d]))
  <1>1. inbox[d] \in StoredRow /\ RowFits(d)
    BY Stock DEF IInv
  <1>2. /\ Processed(inbox[d]) \in StoredRow /\ Processed(inbox[d]).status = "processed"
        /\ Processed(inbox[d]).attempts = inbox[d].attempts
    BY <1>1 DEF Processed, StoredRow
  <1>. QED BY <1>1, <1>2 DEF GoodRow, RowFits

LEMMA RetriedGood ==
  ASSUME IInv, NEW d \in Delivery, NEW n \in Nat, n < MaxAttempts, n < failures[d]
  PROVE  GoodRow(d, Retried(n))
  <1>1. MaxAttempts \in Nat /\ failures[d] \in 0..MaxAttempts
    BY Stock DEF IInv
  <1>2. Retried(n).attempts = n + 1 /\ n + 1 \in 0..MaxAttempts /\ n + 1 <= failures[d]
    BY <1>1 DEF Retried
  <1>3. CASE n + 1 >= MaxAttempts
    BY <1>1, <1>2, <1>3 DEF Retried, GoodRow, StoredRow
  <1>4. CASE n + 1 < MaxAttempts
    BY <1>1, <1>2, <1>4 DEF Retried, GoodRow, StoredRow
  <1>. QED BY <1>1, <1>3, <1>4

\* A request, and a sweep, that a step does not touch.
LEMMA RequestRests ==
  ASSUME IInv, Grows, RowsKeep, NEW d \in Delivery, request'[d] = request[d]
  PROVE  RequestFits(d)'
  <1>1. RequestFits(d) /\ (Owed(d) => Owed(d)') /\ failures[d] <= failures'[d]
        /\ failures[d] \in Nat /\ failures'[d] \in Nat /\ applied \subseteq applied'
    BY Stock DEF IInv, Grows, RowsKeep
  <1>. QED BY <1>1 DEF RequestFits

LEMMA AnswersRest ==
  ASSUME IInv, RowsKeep, NEW d \in Delivery, request'[d] = request[d], forgotten \subseteq forgotten',
         request'[d] = "answered", d \notin forgotten'
  PROVE  Owed(d)'
  BY DEF IInv, RowsKeep, AnsweredIsOwed, Owed

LEMMA SweepRests ==
  ASSUME IInv, Grows, NEW s \in Sweep, sweep'[s] = sweep[s]
  PROVE  BatchFits(s)' /\ MarkFits(s)'
  <1>1. /\ BatchFits(s) /\ MarkFits(s) /\ sweep[s] \in SweepRec
        /\ \A d \in Delivery : /\ failures[d] \in 0..MaxAttempts /\ failures'[d] \in 0..MaxAttempts
                               /\ failures[d] <= failures'[d]
        /\ MaxAttempts \in Nat /\ applied \subseteq applied'
    BY Stock DEF IInv, Grows
  <1>2. sweep[s].batch \in Seq(BatchRow)
    BY BatchRows DEF IInv
  <1>3. \A i \in DOMAIN sweep[s].batch : /\ sweep[s].batch[i].id \in Delivery
                                         /\ sweep[s].batch[i].attempts \in Nat
    BY BatchRows DEF IInv
  <1>4. BatchFits(s)'
    BY <1>1, <1>3 DEF BatchFits
  <1>5. ASSUME sweep[s].batch # <<>>
        PROVE  Row(s).id \in Delivery /\ Row(s).attempts \in Nat /\ Row(s)' = Row(s)
    <2>1. Row(s) = sweep[s].batch[1] /\ 1 \in DOMAIN sweep[s].batch
      BY <1>2, <1>5 DEF Row
    <2>. QED BY <1>3, <2>1 DEF Row
  <1>6. MarkFits(s)'
    BY <1>1, <1>5 DEF MarkFits
  <1>. QED BY <1>4, <1>6

-----------------------------------------------------------------------------
\* The actions of a request.

\* One request moves on; sweeps stay.
RequestMoves(d) ==
  /\ Grows /\ RowsKeep
  /\ queue' \in Seq(Delivery) /\ request' \in [Delivery -> Requests]
  /\ faults' \in Nat /\ UNCHANGED sweep
  /\ forgotten \subseteq forgotten' /\ forgotten' \subseteq Delivery
  /\ \A e \in Delivery \ {d} : request'[e] = request[e]
  /\ RequestFits(d)'
  /\ request'[d] = "answered" /\ d \notin forgotten' => Owed(d)'

LEMMA RequestGoesTo ==
  ASSUME TypeOK, NEW d \in Delivery, NEW to \in Requests, request' = [request EXCEPT ![d] = to]
  PROVE  /\ request' \in [Delivery -> Requests] /\ request'[d] = to
         /\ \A e \in Delivery \ {d} : request'[e] = request[e]
  BY Stock

LEMMA StoredGood ==
  ASSUME IInv, NEW d \in Delivery, NEW n \in {0, 1}, n <= failures[d], Stored(d, n),
         UNCHANGED <<applied, failures>>
  PROVE  Grows /\ RowsKeep /\ queue' \in Seq(Delivery) /\ Owed(d)'
  <1>. DEFINE row == [status |-> "pending", attempts |-> n, due |-> FALSE]
  <1>1. GoodRow(d, row)
    BY Stock DEF IInv, GoodRow, StoredRow
  <1>2. inbox' = [inbox EXCEPT ![d] = row] /\ queue' = Append(queue, d) /\ row.status = "pending"
    BY DEF Stored
  <1>. HIDE DEF row
  <1>3. Grows /\ RowsKeep
    BY <1>1, <1>2, RowWritten, NothingGrows DEF IInv
  <1>4. queue' \in Seq(Delivery)
    BY <1>2, Stock, AppendProperties DEF IInv
  <1>5. Owed(d)'
    BY <1>2, Stock DEF IInv, Owed, Pending
  <1>. QED BY <1>3, <1>4, <1>5

LEMMA ReceiveFacts ==
  ASSUME IInv, NEW d \in Delivery, Receive(d)
  PROVE  RequestMoves(d)
  <1>1. /\ request' = [request EXCEPT ![d] = "working"] /\ d \notin Held
        /\ UNCHANGED <<inbox, queue, sweep, applied, faults, failures, forgotten>>
    BY DEF Receive
  <1>2. Grows /\ RowsKeep
    BY <1>1, NothingGrows, RowsRest DEF IInv
  <1>3. /\ request' \in [Delivery -> Requests] /\ request'[d] = "working"
        /\ \A e \in Delivery \ {d} : request'[e] = request[e]
    BY <1>1, RequestGoesTo DEF IInv, Requests
  <1>. QED BY <1>1, <1>2, <1>3, Stock DEF IInv, RequestMoves, RequestFits

LEMMA HoldFacts ==
  ASSUME IInv, NEW d \in Delivery, Hold(d)
  PROVE  RequestMoves(d)
  <1>1. TypeOK /\ UNCHANGED <<sweep, applied, failures, forgotten>>
    BY DEF Hold, IInv
  <1>2. CASE /\ Stored(d, 0) /\ request' = [request EXCEPT ![d] = "working"]
             /\ UNCHANGED faults
    <2>1. Grows /\ RowsKeep /\ queue' \in Seq(Delivery) /\ Owed(d)'
      BY <1>1, <1>2, StoredGood, Stock
    <2>2. /\ request' \in [Delivery -> Requests] /\ request'[d] = "working"
          /\ \A e \in Delivery \ {d} : request'[e] = request[e]
      BY <1>1, <1>2, RequestGoesTo DEF Requests
    <2>. QED BY <1>1, <1>2, <2>1, <2>2, Stock DEF RequestMoves, RequestFits
  <1>3. CASE /\ Fault /\ request' = [request EXCEPT ![d] = "refused"]
             /\ UNCHANGED <<inbox, queue>>
    <2>1. Grows /\ RowsKeep /\ faults' \in Nat
      BY <1>1, <1>3, NothingGrows, RowsRest, Stock DEF Fault
    <2>2. /\ request' \in [Delivery -> Requests] /\ request'[d] = "refused"
          /\ \A e \in Delivery \ {d} : request'[e] = request[e]
      BY <1>1, <1>3, RequestGoesTo DEF Requests
    <2>. QED BY <1>1, <1>3, <2>1, <2>2, Stock DEF RequestMoves, RequestFits
  <1>. QED BY <1>2, <1>3 DEF Hold

LEMMA HandleFacts ==
  ASSUME IInv, NEW d \in Delivery, Handle(d)
  PROVE  RequestMoves(d)
  <1>1. /\ TypeOK /\ UNCHANGED <<inbox, queue, sweep, faults, forgotten>>
        /\ request[d] = "working"
    BY DEF Handle, IInv
  <1>2. PICK outcome \in {"ok", "throw"}, effect \in BOOLEAN :
          /\ Run(d, outcome, effect)
          /\ request' = [request EXCEPT ![d] =
               IF outcome = "ok" THEN IF d \in Held THEN "mark" ELSE "answered"
               ELSE IF d \in Held THEN "answered" ELSE "enqueue"]
    BY DEF Handle
  <1>3. /\ Grows /\ (outcome = "ok" => d \in applied')
        /\ outcome = "throw" => \A n \in Nat : n <= failures[d] /\ n < MaxAttempts => n < failures'[d]
    BY <1>1, <1>2, RunFacts
  <1>4. RowsKeep
    BY <1>1, <1>3, RowsRest
  <1>5. d \in Held => Owed(d)'
    BY <1>1, <1>4 DEF IInv, RequestFits, RowsKeep
  <1>6. ASSUME NEW to \in Requests, request' = [request EXCEPT ![d] = to],
               to = "enqueue" => d \notin Held /\ failures'[d] > 0, to = "mark" => d \in Held /\ d \in applied',
               to = "answered" => Owed(d)'
        PROVE  RequestMoves(d)
    <2>1. /\ request' \in [Delivery -> Requests] /\ request'[d] = to
          /\ \A e \in Delivery \ {d} : request'[e] = request[e]
      BY <1>1, <1>6, RequestGoesTo
    <2>. QED BY <1>1, <1>3, <1>4, <1>5, <1>6, <2>1, Stock DEF RequestMoves, RequestFits
  <1>7. CASE outcome = "ok" /\ d \in Held
    BY <1>2, <1>3, <1>6, <1>7 DEF Requests
  <1>8. CASE outcome = "ok" /\ d \notin Held
    <2>1. Owed(d)'
      BY <1>3, <1>8 DEF Owed
    <2>. QED BY <1>2, <1>6, <1>8, <2>1 DEF Requests
  <1>9. CASE outcome = "throw" /\ d \in Held
    BY <1>2, <1>5, <1>6, <1>9 DEF Requests
  <1>10. CASE outcome = "throw" /\ d \notin Held
    <2>1. 0 <= failures[d] /\ 0 < MaxAttempts /\ failures'[d] \in Nat
      BY <1>1, <1>3, Stock DEF Grows
    <2>2. failures'[d] > 0
      BY <1>3, <1>10, <2>1
    <2>. QED BY <1>2, <1>6, <1>10, <2>2 DEF Requests
  <1>. QED BY <1>7, <1>8, <1>9, <1>10

LEMMA EnqueueFacts ==
  ASSUME IInv, NEW d \in Delivery, Enqueue(d)
  PROVE  RequestMoves(d)
  <1>1. /\ TypeOK /\ UNCHANGED <<sweep, applied, failures>>
        /\ request' = [request EXCEPT ![d] = "answered"] /\ failures[d] > 0
        /\ request[d] = "enqueue" /\ d \notin Held
    BY DEF Enqueue, IInv, RequestFits
  <1>2. /\ request' \in [Delivery -> Requests] /\ request'[d] = "answered"
        /\ \A e \in Delivery \ {d} : request'[e] = request[e]
    BY <1>1, RequestGoesTo DEF Requests
  <1>3. CASE Stored(d, 1) /\ UNCHANGED <<faults, forgotten>>
    <2>1. 1 <= failures[d]
      BY <1>1, Stock
    <2>2. Grows /\ RowsKeep /\ queue' \in Seq(Delivery) /\ Owed(d)'
      BY <1>1, <1>3, <2>1, StoredGood
    <2>. QED BY <1>1, <1>2, <1>3, <2>2, Stock DEF RequestMoves, RequestFits
  <1>4. CASE Fault /\ forgotten' = forgotten \cup {d} /\ UNCHANGED <<inbox, queue>>
    <2>1. Grows /\ RowsKeep /\ faults' \in Nat
      BY <1>1, <1>4, NothingGrows, RowsRest, Stock DEF Fault
    <2>. QED BY <1>1, <1>2, <1>4, <2>1, Stock DEF RequestMoves, RequestFits
  <1>. QED BY <1>3, <1>4 DEF Enqueue

LEMMA MarkHeldFacts ==
  ASSUME IInv, NEW d \in Delivery, MarkHeld(d)
  PROVE  RequestMoves(d)
  <1>1. /\ TypeOK /\ UNCHANGED <<queue, sweep, applied, failures, forgotten>>
        /\ request' = [request EXCEPT ![d] = "answered"] /\ d \in applied
        /\ request[d] = "mark" /\ Write(d, Processed(inbox[d]))
    BY DEF MarkHeld, IInv, RequestFits
  <1>2. /\ request' \in [Delivery -> Requests] /\ request'[d] = "answered"
        /\ \A e \in Delivery \ {d} : request'[e] = request[e]
    BY <1>1, RequestGoesTo DEF Requests
  <1>3. Grows /\ RowsKeep /\ faults' \in Nat
    <2>1. GoodRow(d, Processed(inbox[d]))
      BY <1>1, ProcessedGood DEF IInv
    <2>. HIDE DEF Processed
    <2>2. CASE inbox' = [inbox EXCEPT ![d] = Processed(inbox[d])] /\ UNCHANGED faults
      BY <1>1, <2>1, <2>2, RowWritten, NothingGrows, Stock
    <2>3. CASE Fault /\ UNCHANGED inbox
      BY <1>1, <2>3, RowsRest, NothingGrows, Stock DEF Fault
    <2>. QED BY <1>1, <2>2, <2>3 DEF Write
  <1>4. Owed(d)'
    BY <1>1 DEF Owed
  <1>. QED BY <1>1, <1>2, <1>3, <1>4, Stock DEF RequestMoves, RequestFits

-----------------------------------------------------------------------------
\* The actions of a sweep.

SweepMoves(s) ==
  /\ Grows /\ RowsKeep
  /\ sweep' \in [Sweep -> SweepRec] /\ faults' \in Nat
  /\ UNCHANGED <<queue, request, forgotten>>
  /\ \A r \in Sweep \ {s} : sweep'[r] = sweep[r]
  /\ BatchFits(s)' /\ MarkFits(s)'

LEMMA SweepGoesTo ==
  ASSUME TypeOK, NEW s \in Sweep, NEW rec \in SweepRec, sweep' = [sweep EXCEPT ![s] = rec]
  PROVE  /\ sweep' \in [Sweep -> SweepRec] /\ sweep'[s] = rec
         /\ \A r \in Sweep \ {s} : sweep'[r] = sweep[r]
  BY Stock

LEMMA RestingType == Resting \in SweepRec /\ Resting.pc = "idle" /\ Resting.batch = <<>>
  BY EmptySeq DEF Resting, SweepRec

LEMMA ReadFacts ==
  ASSUME IInv, NEW s \in Sweep, Read(s)
  PROVE  SweepMoves(s)
  <1>1. TypeOK /\ UNCHANGED <<inbox, queue, request, applied, faults, failures, forgotten>>
    BY DEF Read, IInv
  <1>2. PICK ps \in Batches :
          sweep' = [sweep EXCEPT ![s] = [pc |-> "loop", outcome |-> "none", batch |-> BatchAt(ps)]]
    BY DEF Read
  <1>3. PICK n \in 1..BatchSize : ps \in [1..n -> Due]
    BY DEF Batches
  <1>4. ASSUME NEW i \in 1..n
        PROVE  /\ BatchAt(ps)[i] \in BatchRow
               /\ BatchAt(ps)[i].attempts <= failures[BatchAt(ps)[i].id]
    <2>1. ps[i] \in Due /\ BatchAt(ps)[i] = [id |-> queue[ps[i]], attempts |-> inbox[queue[ps[i]]].attempts]
      BY <1>3 DEF BatchAt
    <2>2. queue[ps[i]] \in Delivery /\ Pending(queue[ps[i]])
      BY <1>1, <2>1, Stock DEF Due
    <2>3. /\ inbox[queue[ps[i]]].attempts \in 0..(MaxAttempts - 1)
          /\ inbox[queue[ps[i]]].attempts <= failures[queue[ps[i]]]
      BY <1>1, <2>2, Stock DEF IInv, RowFits
    <2>. QED BY <2>1, <2>2, <2>3 DEF BatchRow
  <1>. DEFINE rec == [pc |-> "loop", outcome |-> "none", batch |-> BatchAt(ps)]
  <1>5. DOMAIN BatchAt(ps) = 1..n /\ n \in Nat /\ BatchAt(ps) = [i \in 1..n |-> BatchAt(ps)[i]]
    BY <1>1, <1>3, Stock DEF BatchAt
  <1>6. BatchAt(ps) \in Seq(BatchRow)
    <2>. HIDE DEF BatchAt
    <2>1. BatchAt(ps) \in [1..n -> BatchRow]
      BY <1>4, <1>5
    <2>. QED BY <1>5, <2>1, SeqDef
  <1>7. rec \in SweepRec /\ rec.pc = "loop" /\ rec.batch = BatchAt(ps)
    BY <1>6 DEF SweepRec
  <1>. HIDE DEF rec, BatchAt
  <1>8. /\ sweep' \in [Sweep -> SweepRec] /\ sweep'[s] = rec
        /\ \A r \in Sweep \ {s} : sweep'[r] = sweep[r]
    BY <1>1, <1>2, <1>7, SweepGoesTo DEF rec
  <1>9. BatchFits(s)' /\ MarkFits(s)'
    BY <1>1, <1>4, <1>5, <1>7, <1>8 DEF BatchFits, MarkFits
  <1>. QED BY <1>1, <1>8, <1>9, NothingGrows, RowsRest, Stock DEF SweepMoves

LEMMA NewOutcome ==
  ASSUME NEW P, NEW B, NEW O, NEW t \in [pc : P, batch : B, outcome : O], NEW p \in P, NEW o \in O
  PROVE  /\ [t EXCEPT !.pc = p, !.outcome = o] \in [pc : P, batch : B, outcome : O]
         /\ [t EXCEPT !.pc = p, !.outcome = o].pc = p
         /\ [t EXCEPT !.pc = p, !.outcome = o].outcome = o
         /\ [t EXCEPT !.pc = p, !.outcome = o].batch = t.batch
  OBVIOUS

LEMMA RetryFacts ==
  ASSUME IInv, NEW s \in Sweep, Retry(s)
  PROVE  SweepMoves(s)
  <1>1. /\ TypeOK /\ UNCHANGED <<inbox, queue, request, faults, forgotten>>
        /\ sweep[s].batch # <<>> /\ BatchFits(s)
    BY DEF Retry, IInv
  <1>2. PICK outcome \in {"ok", "throw"}, effect \in BOOLEAN :
          /\ Run(Row(s).id, outcome, effect)
          /\ sweep' = [sweep EXCEPT ![s].pc = "mark", ![s].outcome = outcome]
    BY DEF Retry
  <1>3. /\ Row(s) = sweep[s].batch[1] /\ 1 \in DOMAIN sweep[s].batch
        /\ Row(s).id \in Delivery /\ Row(s).attempts \in Nat /\ Row(s).attempts < MaxAttempts
        /\ Row(s).attempts <= failures[Row(s).id]
    <2>1. Row(s) = sweep[s].batch[1] /\ 1 \in 1..Len(sweep[s].batch)
      BY <1>1, BatchRows DEF Row
    <2>. QED BY <1>1, <2>1, BatchRows DEF BatchFits
  <1>4. /\ Grows /\ (outcome = "ok" => Row(s).id \in applied')
        /\ outcome = "throw" => Row(s).attempts < failures'[Row(s).id]
    BY <1>1, <1>2, <1>3, RunFacts
  <1>. DEFINE rec == [sweep[s] EXCEPT !.pc = "mark", !.outcome = outcome]
  <1>5. /\ rec \in SweepRec /\ rec.pc = "mark" /\ rec.outcome = outcome
        /\ rec.batch = sweep[s].batch
    <2>1. sweep[s] \in SweepRec /\ "mark" \in {"idle", "loop", "mark"} /\ outcome \in {"none", "ok", "throw"}
      BY <1>1, Stock
    <2>. QED BY <2>1, NewOutcome DEF SweepRec
  <1>6. sweep' = [sweep EXCEPT ![s] = rec]
    BY <1>1, <1>2, Stock DEF SweepRec
  <1>. HIDE DEF rec
  <1>7. /\ sweep' \in [Sweep -> SweepRec] /\ sweep'[s] = rec
        /\ \A r \in Sweep \ {s} : sweep'[r] = sweep[r]
    BY <1>1, <1>5, <1>6, SweepGoesTo
  <1>8. Row(s)' = Row(s)
    BY <1>5, <1>7 DEF Row
  <1>9. MarkFits(s)'
    BY <1>1, <1>4, <1>5, <1>7, <1>8 DEF MarkFits
  <1>10. BatchFits(s)'
    <2>1. \A i \in 1..Len(sweep[s].batch) : sweep[s].batch[i].attempts <= failures'[sweep[s].batch[i].id]
      <3>. SUFFICES ASSUME NEW i \in 1..Len(sweep[s].batch)
           PROVE  sweep[s].batch[i].attempts <= failures'[sweep[s].batch[i].id]
        OBVIOUS
      <3>. DEFINE d == sweep[s].batch[i].id
      <3>1. d \in Delivery /\ sweep[s].batch[i].attempts \in Nat
        BY <1>1, BatchRows
      <3>2. sweep[s].batch[i].attempts <= failures[d]
        BY <1>1, BatchRows DEF BatchFits
      <3>3. failures[d] \in Nat /\ failures'[d] \in Nat /\ failures[d] <= failures'[d]
        BY <1>1, <1>4, <3>1, Stock DEF Grows
      <3>. QED BY <3>1, <3>2, <3>3
    <2>. QED BY <1>1, <1>5, <1>7, <2>1, BatchRows DEF BatchFits
  <1>. QED BY <1>1, <1>4, <1>7, <1>9, <1>10, RowsRest, Stock DEF SweepMoves

LEMMA MarkFacts ==
  ASSUME IInv, NEW s \in Sweep, Mark(s)
  PROVE  SweepMoves(s)
  <1>1. /\ TypeOK /\ UNCHANGED <<queue, request, applied, failures, forgotten>>
        /\ sweep[s].pc = "mark" /\ BatchFits(s) /\ MarkFits(s)
        /\ Write(Row(s).id, Outcome(s))
        /\ sweep' = [sweep EXCEPT ![s] = [pc |-> "loop", batch |-> Tail(sweep[s].batch),
                                          outcome |-> "none"]]
    BY DEF Mark, IInv
  <1>2. /\ Row(s) = sweep[s].batch[1] /\ sweep[s].batch # <<>>
        /\ Row(s).id \in Delivery /\ Row(s).attempts \in Nat /\ Row(s).attempts < MaxAttempts
    <2>1. Row(s) = sweep[s].batch[1] /\ 1 \in 1..Len(sweep[s].batch) /\ sweep[s].batch # <<>>
      BY <1>1, BatchRows DEF Row, MarkFits
    <2>. QED BY <1>1, <2>1, BatchRows
  <1>3. GoodRow(Row(s).id, Outcome(s))
    <2>1. CASE sweep[s].outcome = "ok"
      BY <1>1, <1>2, <2>1, ProcessedGood DEF Outcome, MarkFits, IInv
    <2>2. CASE sweep[s].outcome # "ok"
      BY <1>1, <1>2, <2>2, RetriedGood DEF Outcome, MarkFits, IInv
    <2>. QED BY <2>1, <2>2
  <1>4. Grows /\ RowsKeep /\ faults' \in Nat
    <2>. HIDE DEF Outcome
    <2>1. CASE inbox' = [inbox EXCEPT ![Row(s).id] = Outcome(s)] /\ UNCHANGED faults
      BY <1>1, <1>2, <1>3, <2>1, RowWritten, NothingGrows, Stock
    <2>2. CASE Fault /\ UNCHANGED inbox
      BY <1>1, <2>2, RowsRest, NothingGrows, Stock DEF Fault
    <2>. QED BY <1>1, <2>1, <2>2 DEF Write
  <1>. DEFINE rest == Tail(sweep[s].batch)
              rec == [pc |-> "loop", batch |-> rest, outcome |-> "none"]
  <1>5. /\ rest \in Seq(BatchRow) /\ Len(rest) = Len(sweep[s].batch) - 1
        /\ \A i \in 1..Len(rest) : rest[i] = sweep[s].batch[i + 1]
    BY <1>1, <1>2, BatchRows, HeadTailProperties
  <1>6. rec \in SweepRec /\ rec.pc = "loop" /\ rec.batch = rest
    BY <1>5 DEF SweepRec
  <1>. HIDE DEF rec
  <1>7. /\ sweep' \in [Sweep -> SweepRec] /\ sweep'[s] = rec
        /\ \A r \in Sweep \ {s} : sweep'[r] = sweep[r]
    BY <1>1, <1>6, SweepGoesTo DEF rec
  <1>8. BatchFits(s)' /\ MarkFits(s)'
    <2>1. DOMAIN rest = 1..Len(rest) /\ Len(rest) \in Nat
      BY <1>5
    <2>2. \A i \in DOMAIN rest : rest[i].attempts <= failures[rest[i].id]
      BY <1>1, <1>5, <2>1, BatchRows DEF BatchFits
    <2>. HIDE DEF rest
    <2>. QED BY <1>1, <1>6, <1>7, <2>2 DEF BatchFits, MarkFits
  <1>. QED BY <1>1, <1>4, <1>7, <1>8 DEF SweepMoves

LEMMA EndSweepFacts ==
  ASSUME IInv, NEW s \in Sweep, EndSweep(s)
  PROVE  SweepMoves(s)
  <1>1. /\ TypeOK /\ UNCHANGED <<inbox, queue, request, applied, faults, failures, forgotten>>
        /\ sweep' = [sweep EXCEPT ![s] = Resting]
    BY DEF EndSweep, IInv
  <1>2. /\ sweep' \in [Sweep -> SweepRec] /\ sweep'[s] = Resting
        /\ \A r \in Sweep \ {s} : sweep'[r] = sweep[r]
    BY <1>1, RestingType, SweepGoesTo
  <1>3. BatchFits(s)' /\ MarkFits(s)'
    BY <1>2, RestingType DEF BatchFits, MarkFits
  <1>. QED BY <1>1, <1>2, <1>3, NothingGrows, RowsRest, Stock DEF SweepMoves

-----------------------------------------------------------------------------
\* Time and death, and the invariant.

LEMMA ComeDueFacts ==
  ASSUME IInv, NEW d \in Delivery, ComeDue(d)
  PROVE  Grows /\ RowsKeep
  <1>. DEFINE row == [inbox[d] EXCEPT !.due = TRUE]
  <1>1. /\ UNCHANGED <<applied, failures>> /\ TypeOK /\ Pending(d) /\ RowFits(d)
        /\ inbox' = [inbox EXCEPT ![d] = row] /\ inbox[d] \in StoredRow
    BY Stock DEF ComeDue, IInv
  <1>2. /\ row \in StoredRow /\ row.status = inbox[d].status
        /\ row.attempts = inbox[d].attempts
    BY <1>1 DEF StoredRow
  <1>3. GoodRow(d, row)
    BY <1>1, <1>2, Stock DEF GoodRow, RowFits, Pending
  <1>. HIDE DEF row
  <1>. QED BY <1>1, <1>3, RowWritten, NothingGrows

LEMMA CrashFacts ==
  ASSUME IInv, Crash
  PROVE  /\ Grows /\ RowsKeep
         /\ sweep' \in [Sweep -> SweepRec] /\ request' \in [Delivery -> Requests]
         /\ faults' \in Nat /\ queue' = queue
         /\ forgotten \subseteq forgotten' /\ forgotten' \subseteq Delivery
         /\ \A s \in Sweep : BatchFits(s)' /\ MarkFits(s)'
         /\ \A d \in Delivery : /\ RequestFits(d)'
                                /\ request'[d] = "answered" /\ d \notin forgotten' => Owed(d)'
  <1>1. /\ TypeOK /\ UNCHANGED <<inbox, queue, applied, failures>> /\ Fault
        /\ sweep' = [s \in Sweep |-> Resting]
        /\ forgotten' = forgotten \cup {d \in AckFirst : request[d] \in {"working", "enqueue"}}
        /\ request' = [d \in Delivery |->
             IF request[d] \notin {"working", "enqueue", "mark"} THEN request[d]
             ELSE IF d \in AckFirst \cup Held THEN "answered" ELSE "refused"]
    BY DEF Crash, IInv
  <1>2. Grows /\ RowsKeep /\ faults' \in Nat
    BY <1>1, NothingGrows, RowsRest, Stock DEF Fault
  <1>3. sweep' \in [Sweep -> SweepRec] /\ \A s \in Sweep : BatchFits(s)' /\ MarkFits(s)'
    BY <1>1, RestingType DEF BatchFits, MarkFits
  <1>4. request' \in [Delivery -> Requests]
    BY <1>1, Stock DEF Requests
  <1>5. ASSUME NEW d \in Delivery
        PROVE  /\ RequestFits(d)'
               /\ request'[d] = "answered" /\ d \notin forgotten' => Owed(d)'
    <2>1. RequestFits(d) /\ (Owed(d) => Owed(d)')
      BY <1>2 DEF IInv, RowsKeep
    <2>2. CASE request'[d] = request[d]
      BY <1>1, <1>2, <2>2, RequestRests, AnswersRest
    <2>3. CASE /\ request[d] \in {"working", "enqueue", "mark"} /\ d \in AckFirst \cup Held
               /\ request'[d] = "answered"
      <3>1. CASE d \in Held
        BY <2>1, <2>3, <3>1 DEF RequestFits
      <3>2. CASE d \in AckFirst /\ d \notin Held
        BY <1>1, <2>1, <2>3, <3>2 DEF RequestFits
      <3>. QED BY <2>3, <3>1, <3>2
    <2>4. CASE request'[d] = "refused"
      BY <2>4 DEF RequestFits
    <2>. QED BY <1>1, <2>2, <2>3, <2>4
  <1>6. forgotten \subseteq forgotten' /\ forgotten' \subseteq Delivery
    BY <1>1, Stock, InboxAssumption
  <1>. QED BY <1>1, <1>2, <1>3, <1>4, <1>5, <1>6

\* What is left to gather from any step.
LEMMA Gathered ==
  ASSUME IInv, Grows, RowsKeep, queue' \in Seq(Delivery), request' \in [Delivery -> Requests],
         sweep' \in [Sweep -> SweepRec], faults' \in Nat, forgotten' \subseteq Delivery,
         \A s \in Sweep : BatchFits(s)' /\ MarkFits(s)',
         \A d \in Delivery : /\ RequestFits(d)'
                             /\ request'[d] = "answered" /\ d \notin forgotten' => Owed(d)'
  PROVE  IInv'
  <1>1. TypeOK'
    BY DEF TypeOK, Grows, RowsKeep, Requests, SweepRec
  <1>2. GivenUpIsEarned' /\ AnsweredIsOwed'
    BY DEF RowsKeep, GivenUpIsEarned, AnsweredIsOwed, Owed
  <1>. QED BY <1>1, <1>2 DEF IInv, RowsKeep

LEMMA InvAtFirst == Init => IInv
  <1>. SUFFICES ASSUME Init
       PROVE  IInv
    OBVIOUS
  <1>1. TypeOK
    BY InboxAssumption, RestingType DEF Init, TypeOK, NoRow, StoredRow, Pending, SweepRec
  <1>2. ASSUME NEW d \in Delivery
        PROVE  RowFits(d) /\ RequestFits(d)
    <2>1. inbox[d].attempts = 0 /\ failures[d] = 0 /\ request[d] = "new"
      BY DEF Init, NoRow
    <2>. QED BY <2>1 DEF RowFits, RequestFits
  <1>3. \A s \in Sweep : BatchFits(s) /\ MarkFits(s)
    BY RestingType DEF Init, BatchFits, MarkFits
  <1>4. GivenUpIsEarned /\ AnsweredIsOwed
    BY DEF Init, GivenUpIsEarned, AnsweredIsOwed, NoRow
  <1>. QED BY <1>1, <1>2, <1>3, <1>4 DEF IInv

LEMMA InvSteps == IInv /\ [Next]_vars => IInv'
  <1>. SUFFICES ASSUME IInv, [Next]_vars
       PROVE  IInv'
    OBVIOUS
  <1>1. ASSUME NEW d \in Delivery, RequestStep(d)
        PROVE  IInv'
    <2>1. RequestMoves(d)
      BY <1>1, ReceiveFacts, HoldFacts, HandleFacts, EnqueueFacts, MarkHeldFacts DEF RequestStep
    <2>2. ASSUME NEW e \in Delivery
          PROVE  /\ RequestFits(e)'
                 /\ request'[e] = "answered" /\ e \notin forgotten' => Owed(e)'
      BY <2>1, RequestRests, AnswersRest DEF RequestMoves
    <2>3. \A s \in Sweep : BatchFits(s)' /\ MarkFits(s)'
      BY <2>1, SweepRests DEF RequestMoves
    <2>4. sweep' \in [Sweep -> SweepRec]
      BY <2>1, Stock DEF IInv, RequestMoves
    <2>. QED BY <2>1, <2>2, <2>3, <2>4, Gathered DEF RequestMoves
  <1>2. ASSUME NEW s \in Sweep, Read(s) \/ SweepStep(s)
        PROVE  IInv'
    <2>1. SweepMoves(s)
      BY <1>2, ReadFacts, RetryFacts, MarkFacts, EndSweepFacts DEF SweepStep
    <2>2. ASSUME NEW r \in Sweep
          PROVE  BatchFits(r)' /\ MarkFits(r)'
      BY <2>1, SweepRests DEF SweepMoves
    <2>3. ASSUME NEW d \in Delivery
          PROVE  /\ RequestFits(d)'
                 /\ request'[d] = "answered" /\ d \notin forgotten' => Owed(d)'
      BY <2>1, RequestRests, AnswersRest DEF SweepMoves
    <2>4. /\ request' \in [Delivery -> Requests] /\ queue' \in Seq(Delivery)
          /\ forgotten' \subseteq Delivery
      BY <2>1, Stock DEF IInv, SweepMoves
    <2>. QED BY <2>1, <2>2, <2>3, <2>4, Gathered DEF SweepMoves
  <1>3. ASSUME NEW d \in Delivery, ComeDue(d)
        PROVE  IInv'
    <2>1. /\ Grows /\ RowsKeep
          /\ UNCHANGED <<queue, request, sweep, applied, faults, failures, forgotten>>
      BY <1>3, ComeDueFacts DEF ComeDue
    <2>2. \A s \in Sweep : BatchFits(s)' /\ MarkFits(s)'
      BY <2>1, SweepRests
    <2>3. \A e \in Delivery : /\ RequestFits(e)'
                              /\ request'[e] = "answered" /\ e \notin forgotten' => Owed(e)'
      BY <2>1, RequestRests, AnswersRest
    <2>. QED BY <2>1, <2>2, <2>3, Gathered, Stock DEF IInv
  <1>4. CASE Crash
    <2>1. queue' \in Seq(Delivery)
      BY <1>4, CrashFacts, Stock DEF IInv
    <2>. QED BY <1>4, <2>1, CrashFacts, Gathered
  <1>5. CASE UNCHANGED vars
    BY <1>5 DEF vars, IInv, TypeOK, Pending, GivenUpIsEarned, AnsweredIsOwed, RowFits,
       RequestFits, BatchFits, MarkFits, Row, Owed
  <1>. QED BY <1>1, <1>2, <1>3, <1>4, <1>5 DEF Next

LEMMA InvAlways == Spec => []IInv
  BY InvAtFirst, InvSteps, PTL DEF Spec

(***************************************************************************)
(* Rows, batches and history are well typed, and no row that is still to   *)
(* be retried has spent its attempts, for any cap and any number of        *)
(* sweeps.                                                                 *)
(***************************************************************************)
THEOREM InboxTypeCorrect == Spec => []TypeOK
  <1>1. IInv => TypeOK
    BY DEF IInv
  <1>. QED BY <1>1, InvAlways, PTL

(***************************************************************************)
(* A row is given up on only when its delivery failed as often as the cap  *)
(* says, however many sweeps overlap, however stale their batches and      *)
(* whatever updates are lost.                                              *)
(***************************************************************************)
THEOREM GivenUpWasEarned == Spec => []GivenUpIsEarned
  <1>1. IInv => GivenUpIsEarned
    BY DEF IInv
  <1>. QED BY <1>1, InvAlways, PTL

(***************************************************************************)
(* What was answered, and not lost by the failing insert or with the       *)
(* process, is applied, or still to be retried, or had all its attempts.   *)
(***************************************************************************)
THEOREM AnsweredStaysOwed == Spec => []AnsweredIsOwed
  <1>1. IInv => AnsweredIsOwed
    BY DEF IInv
  <1>. QED BY <1>1, InvAlways, PTL
=============================================================================
