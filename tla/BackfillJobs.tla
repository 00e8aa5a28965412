---------------------------- MODULE BackfillJobs ----------------------------
(***************************************************************************)
(* The history backfills of one workspace: the rows of                     *)
(* contact_enrichment_jobs.  Connecting a source queues a backfill that    *)
(* waits for a yes (apps/api/src/lib/historyBackfill.mjs); a click or a    *)
(* payment starts it (lib/backfillStart.mjs); a CSV import queues a job    *)
(* that needs no yes (routes/api/contacts.mjs); and a tick of the worker   *)
(* (apps/worker/src/workers/contactEnrichmentJobs.mjs) claims the oldest   *)
(* job, reads the sources, and pauses, retries, fails or finishes it.  A   *)
(* run that read everything stamps the workspace's watermark, before which *)
(* no later run reads.                                                     *)
(*                                                                         *)
(* Rows are numbered in order of created_at.  The clock is abstract: the   *)
(* lock of a running job may turn stale at any time, since no run renews   *)
(* it.                                                                     *)
(***************************************************************************)
EXTENDS Naturals

CONSTANTS
  Source,       \* integrations; a source also names the request that connects it
  Click,        \* requests that say yes
  Payment,      \* webhooks of a first payment
  Account,      \* people whose history is read
  Known,        \* those in the graph from the start
  Worker,       \* worker processes
  MaxAttempts,  \* MAX_ATTEMPTS
  MaxJobs,      \* bound: rows
  MaxFault      \* bound: processes that die, and times the credit or the provider runs out

Request == Source \cup Click \cup Payment

ASSUME JobsAssumption ==
  /\ Source \cap (Click \cup Payment) = {} /\ Click \cap Payment = {}
  /\ Known \subseteq Account
  /\ MaxAttempts \in Nat \ {0} /\ MaxJobs \in Nat
  /\ MaxFault \in Nat

VARIABLES
  connected,  \* the workspace's connections
  graph,      \* accounts in the graph
  rows,       \* [1..MaxJobs -> the row of contact_enrichment_jobs]
  request,    \* [Request -> how far it is, the row it read]
  run,        \* [Worker -> the job in its hands, in its memory]
  watermark,  \* history_backfilled_at is set
  paying,     \* the plan is live
  credit,     \* there are credits above the floor
  provider,   \* the AI provider answers
  faults,     \* faults so far
  (* history *)
  read,       \* <<source, account>> whose past was read
  missed,     \* <<source, account>> whose past a run failed to read
  tried,      \* sources a finished or abandoned job had in sight
  lost        \* requests that died

rowVars  == <<graph, rows>>
history  == <<read, missed, tried, lost>>
world    == <<paying, credit, provider, faults>>
vars     == <<connected, rowVars, request, run, watermark, world, history>>

-----------------------------------------------------------------------------
Job       == 1..MaxJobs
Open      == {"awaiting", "pending", "running", "no_credits", "provider"}
Ended     == {"done", "failed"}
Estimates == {"fits", "over_allowance", "over_ceiling"}

NoRow == [status |-> "none", reason |-> "fits", parked |-> FALSE,
          started |-> FALSE, attempts |-> 0, stale |-> FALSE, accounts |-> {}]
Idle  == [pc |-> "idle", job |-> 0, was |-> "none", attempts |-> 0,
          seen |-> {}, left |-> {}, failed |-> {}, whole |-> FALSE]

Init ==
  /\ connected = {} /\ graph = Known
  /\ rows = [j \in Job |-> NoRow]
  /\ request = [r \in Request |-> [pc |-> "new", row |-> 0]]
  /\ run = [w \in Worker |-> Idle]
  /\ watermark = FALSE
  /\ paying = FALSE
  /\ credit = TRUE /\ provider = TRUE
  /\ faults = 0
  /\ read = {} /\ missed = {} /\ tried = {} /\ lost = {}

Within(status) == {j \in Job : rows[j].status \in status}
Latest(js)     == IF js = {} THEN 0 ELSE CHOOSE j \in js : \A k \in js : k <= j
Oldest(js)     == CHOOSE j \in js : \A k \in js : j <= k
Vacant         == {j \in Job : rows[j].status = "none"}
At(r, pc)      == request[r].pc = pc
Go(r, pc, row) == request' = [request EXCEPT ![r] = [pc |-> pc, row |-> row]]

-----------------------------------------------------------------------------
(* The API: connecting a source, and queueing a backfill for it. *)

Connect(s) ==
  /\ At(s, "new")
  /\ connected' = connected \cup {s}
  /\ Go(s, "enqueue", 0)
  /\ UNCHANGED <<rowVars, run, watermark, world, history>>

(* A job that has not started will see the new source; one that runs will not. *)
DebouncedByRunning == Within({"pending", "running"}) # {}
Debounced == Within({"pending"}) # {}

(* A payment prices again what it then starts; a connect is done once queued. *)
AfterEnqueue(r) == IF r \in Payment THEN "yes" ELSE "end"

LookForQueued(r) ==
  /\ At(r, "enqueue")
  /\ Go(r, IF Debounced THEN AfterEnqueue(r) ELSE "price", 0)
  /\ UNCHANGED <<connected, rowVars, run, watermark, world, history>>

LookForWaiting(r) ==
  /\ At(r, "price")
  /\ Go(r, "write", Latest(Within({"awaiting"})))
  /\ UNCHANGED <<connected, rowVars, run, watermark, world, history>>

Queued(parked, estimate) ==
  [NoRow EXCEPT !.status = "awaiting", !.reason = estimate,
                !.parked = parked, !.accounts = graph]

(* A waiting row is priced again in place, if it still waits. *)
RepricedUnguarded(j, estimate) == [Queued(rows[j].parked, estimate) EXCEPT !.attempts = rows[j].attempts]

Repriced(j, estimate) ==
  IF rows[j].status = "awaiting" THEN [Queued(rows[j].parked, estimate) EXCEPT !.attempts = rows[j].attempts]
  ELSE rows[j]

WriteWaiting(r) ==
  /\ At(r, "write")
  /\ \E estimate \in Estimates :
       IF request[r].row # 0
       THEN rows' = [rows EXCEPT ![request[r].row] = Repriced(request[r].row, estimate)]
       ELSE /\ Vacant # {}
            /\ rows' = [rows EXCEPT ![Oldest(Vacant)] = Queued(FALSE, estimate)]
  /\ Go(r, AfterEnqueue(r), 0)
  /\ UNCHANGED <<connected, graph, run, watermark, world, history>>

-----------------------------------------------------------------------------
(* The API: the yes, by a click or by a payment. *)

Confirm(c) ==
  /\ At(c, "new")
  /\ Go(c, IF paying THEN "yes" ELSE "park", 0)
  /\ UNCHANGED <<connected, rowVars, run, watermark, world, history>>

(* The yes of a workspace that does not pay is remembered on the waiting row. *)
Remember(c) ==
  /\ At(c, "park")
  /\ LET j == Latest(Within({"awaiting"})) IN
       rows' = [k \in Job |-> IF k = j THEN [rows[k] EXCEPT !.parked = TRUE] ELSE rows[k]]
  /\ Go(c, "end", 0)
  /\ UNCHANGED <<connected, graph, run, watermark, world, history>>

(* A first payment: what waits is priced again; a workspace never backfilled gets a row. *)
(* Nobody said yes to the job of an import, so it does not count as a backfill.          *)
Backfilled == \E j \in Job : rows[j].started

Pay(p) ==
  /\ At(p, "new")
  /\ paying' = TRUE
  /\ Go(p, IF Within({"awaiting"}) # {} \/ ~Backfilled THEN "enqueue" ELSE "end", 0)
  /\ UNCHANGED <<connected, rowVars, run, watermark, credit, provider, faults, history>>

(* The newest waiting row, unless it is too large for self-serve.  One over the allowance *)
(* starts for the short window only, which a payment asks for and a click may.            *)
ReadForStart(r) ==
  /\ At(r, "yes")
  /\ \E short \in {TRUE} \cup (IF r \in Click THEN {FALSE} ELSE {}) :
       LET waiting  == Within({"awaiting"})
           refusals == {"over_ceiling"} \cup (IF short THEN {} ELSE {"over_allowance"})
       IN Go(r, IF \E j \in waiting : j = Latest(waiting) /\ rows[j].reason \notin refusals
                THEN "start" ELSE "end", Latest(waiting))
  /\ UNCHANGED <<connected, rowVars, run, watermark, world, history>>

Started(j) ==
  IF rows[j].status = "awaiting"
  THEN [rows[j] EXCEPT !.status = "pending", !.reason = "fits", !.parked = FALSE, !.started = TRUE]
  ELSE rows[j]

Start(r) ==
  /\ At(r, "start")
  /\ rows' = [rows EXCEPT ![request[r].row] = Started(request[r].row)]
  /\ Go(r, "end", 0)
  /\ UNCHANGED <<connected, graph, run, watermark, world, history>>

(* A CSV import brings accounts into the graph and queues a job for them alone. *)
Import(a) ==
  /\ a \notin graph /\ Vacant # {}
  /\ graph' = graph \cup {a}
  /\ rows' = [rows EXCEPT ![Oldest(Vacant)] =
                [NoRow EXCEPT !.status = "pending", !.accounts = {a}]]
  /\ UNCHANGED <<connected, request, run, watermark, world, history>>

-----------------------------------------------------------------------------
(* The worker.  A tick first puts back the jobs whose pause is over. *)

ResumedUnqueued(row) ==
  IF row.status = "no_credits" /\ credit THEN [row EXCEPT !.status = "resumed"] ELSE row

Resumed(row) ==
  IF row.status = "no_credits" /\ credit THEN [row EXCEPT !.status = "pending", !.stale = FALSE]
  ELSE IF row.status = "provider" /\ provider
       THEN [row EXCEPT !.status = "pending", !.stale = FALSE, !.attempts = 0]
  ELSE row

Swept == [j \in Job |-> Resumed(rows[j])]

ClaimableOnce(row) == row.status = "pending"

Claimable(row) == row.status = "pending" \/ (row.status = "running" /\ row.stale)

Tick(w) ==
  /\ run[w].pc = "idle"
  /\ rows' = Swept
  /\ LET due == {j \in Job : Claimable(Swept[j])} IN
       IF due = {} THEN run' = run
       ELSE LET j == Oldest(due) IN
            run' = [run EXCEPT ![w] = [Idle EXCEPT !.pc = "picked", !.job = j,
                      !.was = Swept[j].status, !.attempts = Swept[j].attempts + 1]]
  /\ UNCHANGED <<connected, graph, request, watermark, world, history>>

Claim(w) ==
  /\ run[w].pc = "picked"
  /\ LET j == run[w].job IN
       IF rows[j].status = run[w].was
       THEN /\ rows' = [rows EXCEPT ![j].status = "running", ![j].stale = FALSE,
                                    ![j].attempts = run[w].attempts]
            /\ run' = [run EXCEPT ![w].pc = "claimed"]
       ELSE rows' = rows /\ run' = [run EXCEPT ![w] = Idle]
  /\ UNCHANGED <<connected, graph, request, watermark, world, history>>

Leave(w, status) ==
  /\ rows' = [rows EXCEPT ![run[w].job].status = status]
  /\ run' = [run EXCEPT ![w] = Idle]

(* No credits left: the job pauses before it spends any.  Otherwise the run settles *)
(* how far back it reads and which sources it reads, once.                          *)
Preflight(w) ==
  /\ run[w].pc = "claimed"
  /\ IF ~credit THEN Leave(w, "no_credits")
     ELSE /\ run' = [run EXCEPT ![w].pc = "guard", ![w].seen = connected,
                                ![w].left = connected, ![w].whole = ~watermark]
          /\ rows' = rows
  /\ UNCHANGED <<connected, graph, request, watermark, world, history>>

(* Between two sources, and once after the last: is there credit, and a provider? *)
Guard(w) ==
  /\ run[w].pc = "guard"
  /\ IF run[w].left # {} /\ ~credit THEN Leave(w, "no_credits")
     ELSE IF ~provider THEN Leave(w, "provider")
     ELSE /\ run' = [run EXCEPT ![w].pc = IF run[w].left # {} THEN "scan" ELSE "finish"]
          /\ rows' = rows
  /\ UNCHANGED <<connected, graph, request, watermark, world, history>>

(* One source is read; an error of its own is noted and the run goes on. *)
Scan(w, s) ==
  /\ run[w].pc = "scan" /\ s \in run[w].left
  /\ LET past == IF run[w].whole THEN {s} \X rows[run[w].job].accounts ELSE {} IN
       \/ /\ read' = read \cup past /\ UNCHANGED missed
          /\ run' = [run EXCEPT ![w].pc = "guard", ![w].left = @ \ {s}]
       \/ /\ missed' = missed \cup past /\ UNCHANGED read
          /\ run' = [run EXCEPT ![w].pc = "guard", ![w].left = @ \ {s}, ![w].failed = @ \cup {s}]
  /\ UNCHANGED <<connected, rowVars, request, watermark, world, tried, lost>>

GivesUp(w) == run[w].attempts >= MaxAttempts

(* Any other error fails the job, after MAX_ATTEMPTS claims of it for good. *)
Throw(w) ==
  /\ run[w].pc = "scan"
  /\ Leave(w, IF GivesUp(w) THEN "failed" ELSE "pending")
  /\ tried' = IF GivesUp(w) THEN tried \cup run[w].seen ELSE tried
  /\ UNCHANGED <<connected, graph, request, watermark, world, read, missed, lost>>

Finish(w) ==
  /\ run[w].pc = "finish"
  /\ rows' = [rows EXCEPT ![run[w].job].status = "done"]
  /\ run' = [run EXCEPT ![w].pc = "stamp"]
  /\ tried' = tried \cup run[w].seen
  /\ UNCHANGED <<connected, graph, request, watermark, world, read, missed, lost>>

(* Only a run whose every source was read moves the watermark. *)
StampedAnyway(w) == TRUE

Stamped(w) == watermark \/ run[w].failed = {}

Stamp(w) ==
  /\ run[w].pc = "stamp"
  /\ watermark' = Stamped(w)
  /\ run' = [run EXCEPT ![w] = Idle]
  /\ UNCHANGED <<connected, rowVars, request, world, history>>

-----------------------------------------------------------------------------
(* Time, money, the provider, and processes that die. *)

Age(j) ==
  /\ rows[j].status = "running" /\ ~rows[j].stale
  /\ rows' = [rows EXCEPT ![j].stale = TRUE]
  /\ UNCHANGED <<connected, graph, request, run, watermark, world, history>>

Fault == faults < MaxFault /\ faults' = faults + 1

RunsOut ==
  /\ Fault
  /\ \/ credit /\ credit' = FALSE /\ provider' = provider
     \/ provider /\ provider' = FALSE /\ credit' = credit
  /\ UNCHANGED <<connected, rowVars, request, run, watermark, paying, history>>

ComesBack ==
  /\ \/ ~credit /\ credit' = TRUE /\ provider' = provider
     \/ ~provider /\ provider' = TRUE /\ credit' = credit
  /\ UNCHANGED <<connected, rowVars, request, run, watermark, paying, faults, history>>

RequestDies(r) ==
  /\ request[r].pc \notin {"new", "end"}
  /\ Fault
  /\ Go(r, "end", 0)
  /\ lost' = lost \cup {r}
  /\ UNCHANGED <<connected, rowVars, run, watermark, paying, credit, provider, read, missed, tried>>

WorkerDies(w) ==
  /\ run[w].pc # "idle"
  /\ Fault
  /\ run' = [run EXCEPT ![w] = Idle]
  /\ UNCHANGED <<connected, rowVars, request, watermark, paying, credit, provider, history>>

-----------------------------------------------------------------------------
Work(w) ==
  \/ Tick(w) \/ Claim(w) \/ Preflight(w) \/ Guard(w)
  \/ \E s \in Source : Scan(w, s)
  \/ Throw(w) \/ Finish(w) \/ Stamp(w)

Next ==
  \/ \E s \in Source : Connect(s)
  \/ \E c \in Click : Confirm(c) \/ Remember(c)
  \/ \E p \in Payment : Pay(p)
  \/ \E r \in Request : \/ LookForQueued(r) \/ LookForWaiting(r) \/ WriteWaiting(r)
                        \/ ReadForStart(r) \/ Start(r) \/ RequestDies(r)
  \/ \E a \in Account : Import(a)
  \/ \E w \in Worker : Work(w) \/ WorkerDies(w)
  \/ \E j \in Job : Age(j)
  \/ RunsOut \/ ComesBack

Spec == Init /\ [][Next]_vars

(* The ticks are started by a timer and a run goes on by itself; a lock that nobody *)
(* renews ages.  Nothing is owed by a customer, a sender, a purse or a provider.     *)
FairSpec == Spec /\ \A w \in Worker : WF_vars(Work(w)) /\ \A j \in Job : WF_vars(Age(j))

-----------------------------------------------------------------------------
TypeOK ==
  /\ connected \subseteq Source /\ graph \subseteq Account
  /\ rows \in [Job -> [status : Open \cup Ended \cup {"none"}, reason : Estimates, parked : BOOLEAN,
                       started : BOOLEAN, attempts : Nat, stale : BOOLEAN, accounts : SUBSET Account]]
  /\ request \in [Request -> [pc : {"new", "enqueue", "price", "write", "yes", "park", "start", "end"},
                              row : 0..MaxJobs]]
  /\ run \in [Worker -> [pc : {"idle", "picked", "claimed", "guard", "scan", "finish", "stamp"},
                         job : 0..MaxJobs, was : {"none", "pending", "running"}, attempts : Nat,
                         seen : SUBSET Source, left : SUBSET Source, failed : SUBSET Source,
                         whole : BOOLEAN]]
  /\ watermark \in BOOLEAN /\ paying \in BOOLEAN /\ credit \in BOOLEAN /\ provider \in BOOLEAN
  /\ faults \in 0..MaxFault
  /\ read \subseteq Source \X Account /\ missed \subseteq Source \X Account
  /\ tried \subseteq Source /\ lost \subseteq Request

(* The job will still be run with s in sight. *)
WillSee(j, s) ==
  \/ rows[j].status \in Open \ {"running"}
  \/ /\ rows[j].status = "running"
     /\ \A w \in Worker : run[w].job = j /\ run[w].pc \in {"guard", "scan", "finish"} => s \in run[w].seen

(* No source is silently dropped: when the request that connected it has come back, a job *)
(* that had it in sight is over, or there is a job that will have it in sight.            *)
ConnectedIsOwed ==
  \A s \in Source \ lost :
     At(s, "end") => s \in tried \/ \E j \in Job : WillSee(j, s)

(* A past that could not be read can be read by running the backfill again: a run moves  *)
(* the watermark only when everything ever missed of its own accounts has been read       *)
(* since.  Of others' accounts it says nothing: see WatermarkIsHonest.                    *)
FailedStaysReadable ==
  [][\A w \in Worker :
       ~watermark /\ watermark' /\ run[w].pc = "stamp" /\ run[w] # run'[w] =>
         missed \cap (Source \X rows[run[w].job].accounts) \subseteq read]_vars

(* What the schema says of the watermark: the history before it has been pulled. *)
WatermarkIsHonest == watermark => (tried \X graph) \subseteq read

(* A backfill is started once: a row somebody said yes to never waits for a yes again,   *)
(* whatever a connect has read of it before.                                              *)
StartedStays ==
  [][\A j \in Job : rows[j].status \in (Open \cup Ended) \ {"awaiting"} => rows'[j].status # "awaiting"]_vars

Stopped(j) ==
  \/ rows[j].status \in Ended
  \/ rows[j].status = "no_credits" /\ ~credit
  \/ rows[j].status = "provider" /\ ~provider

(* Every started job comes to its end, or to a pause whose cause is still there, though  *)
(* workers die under it and others are queued before it.                                  *)
StartedEnds == \A j \in Job : rows[j].status = "pending" ~> Stopped(j)
=============================================================================
