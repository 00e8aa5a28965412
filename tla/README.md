# OpenNous: a verification project in TLA+

OpenNous keeps what a team knows about its customers. Every source (CRM sync,
e-mail, calls, forms, agents) writes *observations* about *entities*; a belief
layer derives one *claim* per entity and property from them, and everything
else (lists, scores, triggers, CRM write-back) reads the claims. The program is
an HTTP API and a worker process that share a Postgres database through
PostgREST, with no transactions across calls and few constraints: what makes it
correct is a set of protocols over tables, and those protocols are what this
project models.

All paths below are relative to `src/`. `PROJECT.json` maps every definition
that models code to the lines it models.

## 1. Inventory

### Claim engine and belief layer — modelled in part (`ClaimEngine`)

* **Code.** `packages/core/src/db/claims.ts`, `db/observations.ts`,
  `services/settleClaimQueue.ts`, `apps/worker/src/workers/claimEngine.mjs`,
  `apps/api/src/routes/v2/observations.mjs`.
* **State.** `observations` (an append-only log), `claim_jobs` (a queue filled
  by a trigger of the log), `claims` (one row per entity and property, with
  `epistemic_class` and `invalid_at`), open predictions, the announcement rows
  that `fireClaimTransitionTriggers` stores in the outbox.
* **Operations.** `recordObservation`, `recomputeClaim`, `recomputeClaims`,
  `assertClaims`, the engine's tick `processClaimJobs`, `settleClaimQueue`, the
  record route and `DELETE /v2/observations/:id`, both of which recompute inline.
* **Hard.** Any number of writers read the log, derive, and upsert the claim,
  several round trips apart and without comparing versions. A sticky check
  (asserted values are not overwritten) is made on a row read earlier. Jobs are
  deleted by id after the recompute. Failed queries are sometimes looked at and
  sometimes not.
* **Correct means.** No change of the log is forgotten; a value the user set
  stays; an invalidated claim does not reappear; a changed score-affecting claim
  is rescored; a transition is announced; the queue drains.

### Backfill lock — modelled (`BackfillLock`)

* **Code.** `packages/core/src/services/backfillLock.ts`,
  `apps/worker/src/lib/backfillLock.mjs`, the SIGTERM handler in
  `apps/worker/src/index.mjs`.
* **State.** `backfill_locks` (workspace, job, holder, expiry); the handles a
  process holds.
* **Operations.** Acquire (one or two reads, then an upsert), renew, release,
  release of everything on SIGTERM.
* **Hard.** Check-then-act, leases against a clock read once, a holder's name
  that two runs of one script share, process death.
* **Correct means.** Conflicting runs do not work at once; a run is turned away
  only because of one that works.

### Outbound webhooks — modelled in part (`DeliveryPromise`, `WebhookOutbox`)

* **Code.** `packages/core/src/db/triggers.ts`, `db/webhookDeliveries.ts`,
  `apps/worker/src/workers/triggerDelivery.mjs`, `lib/trialGate.mjs`.
* **State.** `outbound_events` (one row per event and subscription: delivered,
  dead, attempts, next attempt), `trigger_subscriptions`, `webhook_deliveries`
  (the log of attempts), the worker's batch in memory.
* **Operations.** Enqueue (lookup, then insert), pause, delete, the delivery loop,
  `markDelivered`, `markFailure`, `deferDelivery`, test sends, resends.
* **Hard.** The batch is a snapshot used up to fifty sends later; the process may
  die after the receiver took the event; the same event is enqueued twice; a
  subscription goes away under a fan-out.
* **Correct means.** Delivered only what was taken, settled once, dead only after
  its attempts, never pending for ever.

### Inbound webhook inbox — modelled in part (`WebhookInbox`)

* **Code.** `apps/worker/src/utils/webhookInbox.mjs`, `workers/webhookRetry.mjs`, the
  inline runs in `webhooks/handlers/`.
* **State.** `webhook_inbox` rows (pending, processed, failed; attempts; next attempt);
  the batch each sweep read.
* **Operations.** The inline run of a handler, `enqueueForRetry` after it threw,
  `holdDelivery` before it starts, the sweep `processWebhookInbox`, `markProcessed`,
  `markRetry`.
* **Hard.** A sweep starts each minute with nothing that keeps two apart, and marks rows
  by id from the attempts of its batch, so a late mark overwrites a newer one; one
  source is answered before its work; the errors of the marks are not looked at.
* **Correct means.** What was answered is applied, still pending, or had all its
  attempts; nothing is given up on early; every row settles.

### History backfills, of the job queues — modelled in part (`BackfillJobs`)

* **Code.** `apps/api/src/lib/historyBackfill.mjs`, `lib/backfillStart.mjs`,
  `lib/connectIngest.mjs`, `routes/api/backfillPreview.mjs`, the import in
  `routes/api/contacts.mjs`, `apps/worker/src/workers/contactEnrichmentJobs.mjs`,
  `services/contactHistoryEnricher.mjs`.
* **State.** `contact_enrichment_jobs` (status, reason, attempts, lock stamp, account
  list), the workspace's connections, accounts, plan and `history_backfilled_at`.
* **Operations.** Connect, queue or re-price the waiting job, confirm, remember the yes,
  pay, start, import; the tick: resume pauses, claim, preflight, guard between sources,
  read a source, fail, finish, stamp the watermark.
* **Hard.** Requests and the worker work from copies of a row and guard their writes by
  status alone; a run fixes its sources when it starts; locks are stolen by age and
  never renewed; pauses, failures and crashes all count attempts.
* **Correct means.** A connected source is owed a backfill; a started job ends; a past
  that could not be read stays readable; a yes is asked for once.

`bulkLeadJobs.mjs` and `ownBackfillJobs.mjs` are not modelled.

### Automation runs — modelled in part (`AutomationRuns`)

* **Code.** `packages/core/src/services/automationRun.mjs`.
* **State.** `agent_routine_runs`: status, step index, the bundle and the words a pause
  kept, the Slack card, the step log; the copy each process works from.
* **Operations.** The walk `runSteps`, its pauses and outcomes, `decideAutomationRun`
  (approve and skip, in the product and from a card), `saveApprovalChoices`,
  `sendRunEmail`; edits of the automation.
* **Hard.** Everyone reads the row, works for minutes, and writes it back; a decision is
  claimed by status; one approval covers several steps; a crash leaves a run running.
* **Correct means.** Only what a person was shown and approved reaches outside; it does
  so once; a skipped run does nothing more.

### CRM write-back and echo suppression — modelled in part (`CrmHygiene`)

* **Code.** `packages/core/src/services/crmHygiene.ts`, `crmReconcile.ts`,
  `crmApply.ts`, `crmProvenance.ts`, `db/crmWriteState.ts`,
  `apps/api/src/routes/api/crm.mjs`, `apps/worker/src/workers/crmSync.mjs`.
* **State.** `crm_hygiene_proposals` (status, kind, the value it was raised against and
  the one proposed), `crm_write_state` (per field, what Nous last wrote),
  `hygiene_last_run_at`, `last_synced_at`; and the live CRM, which people edit.
* **Operations.** A hygiene run (read the claim, read the CRM, decide, look for an open
  and for a dismissed proposal, insert, stamp), a decision, `applyProposal` (re-read,
  patch, remember, settle), the sync (fetch since the cursor, look for an echo, consume
  it or ingest, move the cursor).
* **Hard.** Runs, decisions, syncs and people act on one record with no lock; each step
  uses what an earlier round trip read; a patch may succeed and its answer be lost; what
  Nous writes comes back as a change from the CRM.
* **Correct means.** Nothing is proposed on the CRM's own word; no edit is overwritten
  unseen; a dismissed value is not raised again; applied means written; the sync hears
  every change that is not Nous's own.

The raising of records the CRM lacks, the ICP write-back, the company and deal syncs and
the pushes of `crmPush.ts` and `crmWriteback.ts` are not modelled.

### After-call runs — modelled in part (`AfterCall`)

* **Code.** `packages/core/src/db/githubDispatch.ts`, `db/managedWebhooks.ts`,
  `apps/worker/src/workers/githubDispatch.mjs`, `signals/callScore.mjs`,
  `services/callReviewStore.ts`, `emitEvent` in `services/events.mjs`, the toggle in
  `apps/api/src/routes/api/automations.mjs`.
* **State.** `personal_workspaces` (the toggle, the repository), the managed webhooks among
  `trigger_subscriptions`, `call_scorecards`, `github_dispatches`, `outbound_events`.
* **Operations.** Change a seat and sync its webhook, reconcile all webhooks, review a
  recording (look for the call's scorecard, store, queue the runs, emit the event), drain.
* **Hard.** Two ways of starting a run exist at once, and the choice is made from a look at
  the webhooks taken round trips before either is written; every failed look is taken for
  "nobody"; two recordings of one call are reviewed by processes that know nothing of each
  other; a reconcile writes from what it listed.
* **Correct means.** A call starts one run in each seat that wants one, by one way; the
  webhooks follow the toggles; the queue empties.

### Identity resolution — not modelled yet

`packages/core/src/db/entities.ts`, `db/identityProposals.ts`: find-or-create and
merge of entities whose observations and claims are being written meanwhile.

### Authority, conflicts, projection — not modelled yet

`db/canonicalAxes.ts`, `db/conflicts.ts`, `services/canonicalProjection.ts`: which
source wins for which property. Pure, so a function checked against a
reference definition.

### Not planned

| Part | Why |
| --- | --- |
| Predictions, scores, intent | arithmetic over many inputs; only the rescore that is owed is modelled |
| Validation in the record route | parsing of bodies |
| Lists and leads | derived views with an idempotent refresh |
| Event log, what starts an automation | an append-only log; schedules and filters over it |
| Connectors, pollers, handlers | conversion of payloads, I/O |
| HTTP routes, authentication, sharing | request parsing and read models |
| Extraction and language models | prompts and text |
| MCP server, CLI, sandbox, frontend | clients and presentation |
| Schema and migrations | the reference for keys, constraints, triggers |

### How the parts interact

```
 handlers, pollers, imports, API ──insert──▶ observations ──trigger──▶ claim_jobs
        │                                         │                        │
        │ inline recompute                        ▼                        ▼
        └──────────────────────▶ claims ◀── recomputeClaim(s) ◀── engine, settle
                                   │                                  │
                    transitions ───┘                                  └─▶ predictions
                                   ▼
          outbound_events ──deliverTriggers──▶ receivers      backfill scripts and
                 ▲                                            sweeps take backfill_locks
        test sends, resends, GitHub requests                  before they write
```

The components share only the database. Calls in one process (a tick of the
engine calling `recomputeClaim`) are modelled inside one module, because the
interleaving of their round trips is the matter. The inbox's handlers, the
backfills and the automations' steps write observations as any other writer does
(`Observe` and `Record` in `ClaimEngine`).

## 2. Plan

| # | Module | What | State |
| --- | --- | --- | --- |
| 1 | `ClaimEngine`, `ClaimEngineProofs` | the belief layer's writers | done |
| 2 | `BackfillLock`, `BackfillLockProofs` | the lock | done |
| 3 | `DeliveryPromise`, `WebhookOutbox`, `WebhookOutboxProofs` | outbound events, and what they promise | done |
| 4 | `WebhookInbox`, `WebhookInboxProofs` | overlapping sweeps; answered means owed, failed means its attempts were spent, every row settles | done |
| 5 | `BackfillJobs`, `BackfillJobsProofs` | from connecting a source to the watermark: pricing, the yes, the claim, pauses, retries | done |
| 6 | `AutomationRuns`, `AutomationRunsProofs` | the walk, pauses and decisions of an automation's run | done |
| 7 | `CrmHygiene`, `CrmHygieneProofs` | proposals for the CRM, their approval and application, the record of a write and its echo | done |
| 8 | `AfterCall`, `AfterCallProofs` | the move from the GitHub queue to managed webhooks, under the reviews of one call | done |
| 9 | `EntityMerge` | merge against concurrent writers of the loser | |
| 10 | `Authority` | tiers and decay as functions, against a reference definition | |

The order follows what is lost when a part is wrong: the belief layer first, then
what keeps bulk writers apart, then what leaves the system, then what enters it.

*Abstract specifications.* `DeliveryPromise` is stated and implemented. An inbox that
delivers at least once would be the next, with the exceptions that `AnsweredIsOwed`
names.

*Theorems.* Every safety property that a passing run of a module in this table checks is a
theorem about all its instances, or all with one worker where the code counts on that
(section 5). What is left to the model checker is liveness.

## 3. Modules and code

### `ClaimEngine`

One `Target` is an (entity, property) pair. Targets are numbers because the queue
is read in target order. The actions are single round trips:

| TLA+ | Code |
| --- | --- |
| `Observe`, `Record`, `Insert` | `recordObservation`; the job row is stored by the trigger in the same statement |
| `ReadRows`, `ReadNoRows`, `ReadObservations`, `Write`, `Fire`, `Fail` | the round trips of `recomputeClaim` (one target) and `recomputeClaims` (several), and of `fireClaimTransitionTriggers` |
| `EngineSweep`, `EngineFinish`, `EngineWrap`, `EngineCrash` | `processClaimJobs`: read a batch, recompute, delete the jobs by id, repeat, rescore |
| `SettleStart`, `SettleBatch`, `Finish` | `settleClaimQueue` |
| `RetractDelete`, `RetractCount`, `RetractNoCount`, `RetractHide` | `DELETE /v2/observations/:id` |
| `Assert`, `Clear` | `assertClaims` with a value and with null |
| `Crash` | the process behind a settle or a request dies |

`call[c]` is the recompute caller `c` has in flight: its program counter, its
targets, the jobs it will delete, what it derived, and (history) which change of
the log it had read. `deriveClaim` is `Newest`: the latest `observed_at` wins, and
a tie is left open, since the two recomputes order ties differently.

`ver`, `covered`, `lost`, `fixed`, `blind` and `dropped` are history: no guard reads them
(except the bound on `ver`), properties do. `lost[t]` is true once a stale
upsert replaced a newer one or a retraction was abandoned, the two ways the code
forgets a change; `StaleOnlyAfterLoss` says that there is no third.

*Abstracted.* The 200-row limit of the read of observations, the paging of reads,
the order of a settle's batches (left open), the chunks in which jobs are deleted,
the rescore (one step), the authority axes, conflict rows, projection and lists.
`inferred` rows are treated as `observed`: both are derived. The retraction's
select and delete are one step. Observations without a value (`Blank`) are counted by
the retraction and passed over by `deriveClaim` (`Stated`); `writers` has them. `interaction.*` properties, which are not queued,
are not targets. The trigger that would reject a deletion from the log exists in
`supabase/schema.sql:14265` and is disabled at line 14267, so the retraction's
delete succeeds, though `docs/context-graph.md:81` says that a trigger rejects it.

### `BackfillLock`

One workspace; a `Run` is one execution of a script or sweep. `Start`, `ReadOwn`,
`ReadOthers`, `Upsert` and `AcquireFails` are the steps of `acquireBackfillLock`;
`Renew`, `Release` the handle; `Finish` is `withBackfillLock`; `HandBack`, then
`Exit`, the SIGTERM path; `Crash` a death without it. `Tick` is time. A row's
expiry is computed from the clock read at the start, as in the code
(`Taken`, `Blocks`). `excused` and `leaked` are history.

*Abstracted.* Clock skew between hosts, the warning of a takeover (it changes
nothing), the handle without effect that a database without the table yields.

### `DeliveryPromise` and `WebhookOutbox`

`DeliveryPromise` is what a receiver may rely on: an event is stored, taken,
settled as delivered only after it was taken; delivered, dead and gone are final;
it may arrive more than once. `WebhookOutbox` is the code: `Lookup` and
`InsertRows` are `enqueueOutboundEvent`; `Pause`, `Delete` the subscription's
update and deletion, with the cascade; `Fetch`, `SkipInactive`, `SkipLapsed`,
`Send`, `Settle`, `EndTick` the loop of `deliverTriggers`; `Failure` is
`markFailure`, `Delivered` is `markDelivered`; `TestStore`, `TestSend`,
`TestSettle`, `TestLost` are `sendTestDelivery`; `Resend` is `resendDelivery`.
`StatusOf` is the refinement mapping.

*Abstracted.* The length of a backoff and of the hour a lapsed trial waits
(`ComeDue` ends either), which of the due rows are read and in which order they
are sent (left open; the code reads them by due time, and the order of due times
is not kept), signing and payloads, the five-minute memory of the trial gate
(`lapsed` is what the gate answers, and changes freely). Events without an
`external_id` are never deduplicated: each is a key of its own that is enqueued
once. Attempts are logged when possible; the log is read only by resends.
A test's look at its subscription and its insert are one step. There is one
worker process, as in the deployment.

### `WebhookInbox`

A row is named by its delivery. `Receive`, `Hold`, `Handle`, `Enqueue` and `MarkHeld` are
the request: `Handle` is the inline run of a handler, `Hold` is `holdDelivery` for the
sources stored before the work, `Enqueue` is `enqueueForRetry`. `Read`, `Retry`, `Mark`
and `EndSweep` are `processWebhookInbox`, in any number of sweeps at once; `Retried` and
`Processed` are what `markRetry` and `markProcessed` write. `Crash` is the worker process
with everything it works on. `AckFirst` are the deliveries of Fellow, answered before the
work; `Held` those of a source that calls `holdDelivery` (its caller is not in this
repository, so `MarkHeld` is marked external).

*Abstracted.* Backoffs (`ComeDue` ends any), payloads, what a reprocessor does (one
effect, which may be stored even though the run throws). Rows a handler stores as
`unmatched` are never retried and have no part here. A crash needs something in flight.

### `BackfillJobs`

The jobs a workspace owns. `Connect`, `LookForQueued`, `LookForWaiting` and
`WriteWaiting` are the connect route and `queueHistoryBackfill`, one round trip each;
`Confirm`, `Remember`, `Pay`, `ReadForStart` and `Start` the ways a job gets its yes
(`started`, which an import's job never has, so that a payment passes it over: `Backfilled`);
`Import` the CSV import. `Tick` to `Stamp` are `processContactEnrichmentJobs`, with
`Resumed` for the two resume sweeps at its head. `seen` and `left` are the sources a run
settled on at its start; `read`, `missed`, `tried` and `lost` are history.

*Abstracted.* Money and the provider are each there or not, and change freely within the
bound on faults; how large an estimate is; windows other than "everything" and "since the
watermark"; sources that are only taken live, and graphs so large that a connect defers
its backfill (`connectIngest.mjs:370-411`); renewals and the sync lane; members' own jobs; paid-by-the-day jobs; the
reading of filed e-mail after the sources, which has a lock of its own; a graph that is
empty and is to be discovered. `Age` stands for twenty minutes without a renewal, which
is every running job, since nothing renews.

### `AutomationRuns`

One run of one automation, whose steps' kinds are `Plan`. `Write`, `Judge`, `Pass`,
`Act`, `Fail` and `Pause` are the steps of the loop of `runSteps`; `Save` writes its
outcome (`runOutcome`). `Decides`, then `Approve` or `Reject`, are
`decideAutomationRun`: its read, and its claim with what follows. `Notes` and `Keep` are
`saveApprovalChoices`, `Opens` and `Send` are `sendRunEmail`. `BundleFrom` is what a
pause shows; `ShownDecisions` drops decisions about anything else. The words a step acts
with are the automation's steps (their edition) and the document an AI step wrote last;
a pause keeps both.

*Abstracted.* Texts, template variables that are composed anew when an approval resumes,
the result of a rule, the nonce of a card (a card decides the pause whose step it
names), step handlers' own effects (one act each), what starts the run, tests, holds,
`wait` steps, deletion of the automation. The Slack route that calls
`decideAutomationRun` with a card's token is not in this repository; the model has it
call with what the function checks.

### `CrmHygiene`

One reconciled field of one record. `HumanEdit` is a person in the CRM, `Observe` evidence
from elsewhere, `Derive` the belief layer catching up (`ClaimEngine` says when it does).
`StartRun`, `FetchField`, `Decide`, `LookForOpen`, `LookForRejected`, `Insert`, `Mark` are
the round trips of `runHygieneForConfig` and `runReconcilePass`; `Decisions` is
`decideReconcile` behind `observationsPassLoopGate`, with `Confident` the arithmetic of
`deriveClaim` against the threshold. `Record` and `Approve` are decisions; `Reread`,
`Patch`, `Remember`, `Settle` the steps of `applyProposal`, `Refused` its early failures.
`BeginPull` to `EndPull` are `syncOneConfig`, with `IsEcho` and `Consume` for
`echoFieldsToSkip` and `Upsert` for what the contacts view makes of a pulled value.
`crm.rev` counts the changes of the record: it stands for its modification time, which
the provider filters by. `Age` takes a dismissed proposal out of the 90 days the rejection
memory goes back. The two looks of a run may go unanswered, and have then found nothing;
the look for an echo may, or find the write older than its 14 days. `FetchRecord` may end at
the page cap before the record (`cut`), and `EndPull` holds the cursor or moves it to where
the cut kind got to. `Upsert` may store nothing and say nothing. `wrote`, `snubbed` and
`pull.how` (whether the record fetched was worked through, "heard", or let go without an
error, "lost") are history.

*Abstracted.* Values are compared after normalisation; `observed_at` is the order of
ingestion; an observation is either own evidence or came from the CRM (those of unknown
provenance, which the gate counts as neither, are left out); how old a claim is is left
open (`KindFor`'s `fresh`). The record exists, and one sync is at work at a time. Pages
come in the order of change; a record that changes while it is paged, and so moves between
pages, is one the cap cuts off or one that is fetched. That the cursor is held or moved is
left open for every provider, though only HubSpot has a resume point; deals, companies and
engagements are "another kind" that may be cut short. What the run writes about itself is
left out, but for the stamp.

### `AfterCall`

| TLA+ | Code |
| --- | --- |
| `Edit`, then `ReadSeat`, `ReadManaged`, `WriteHook` | a request that changes a seat, and its `syncAfterCallWebhook` |
| `Reconcile`, `NextSeat`, and the same three | `reconcileAfterCallWebhooks`: a listed seat is used as it was listed, an orphan's is read afresh |
| `SyncFails` | a query fails (a reconcile goes on with the next seat), or the process dies |
| `Resolve`, `Store` | `resolveCallTarget`, `storeCallReview`, whose `upsertScorecard` may fail unnoticed |
| `ReadSeats`, `ReadMoved`, `Queue` | `enqueueGithubDispatches`, one upsert per seat |
| `Listen`, `Insert` | `emitEvent` behind `callEnded` |
| `ReviewDies`, `Again` | process death or the `catch` of `scoreCall`; the recording is delivered again |
| `Deliver` | `deliverOne`, with `Marked` for the marks |

A run is stored under the name of the recording that opened the call, in either table. Way 0
is the queue, way `n` the seat's `n`-th webhook. `asked`, `wanted`, `looked`, `shifted`,
`blind`, `hurt`, `lost` (recordings whose scorecard was not stored) and `unseen` (pairs of
recordings of which one could not see the other's scorecard) are history.

*Abstracted.* The call is a graded one that lets runs start (other kinds raise the event
only), heard within the event's 48 hours and a webhook's seven days of grace, and about
nobody personal. Repositories and tokens are connected or not. What becomes of a stored event
is `WebhookOutbox`; the event log and payloads are left out. A drain's read, post and mark are
one step, since only it changes a stored row; which rows are due is left open, and a mark that
is lost leaves the row as it was. The two lists
of a reconcile are one read, and a reconcile with nothing listed is no step. The request's own
read and write of a seat is one step.

## 4. Runs

Every `.cfg` names its instance; the definitions it substitutes are in the `MC`
modules. Every property of a passing run has a mutant in `PROJECT.json`, a
plausible bug under which the run finds the property violated.
The types of `ClaimEngine`, `CrmHygiene` and `AfterCall` are proved (section 5) and not run.

### Passing

| Run | Question | Instance |
| --- | --- | --- |
| `engine_alone` | With the engine as the only drainer, can a change be forgotten (`CurrentOrQueued`)? Does the queue drain next to a target that always fails, and when does it not (`Converges`)? | two targets, the first poisoned, batches of two jobs, 2 changes each, users clear, one fault of any kind, fair |
| `writers` | With a settle, record requests and a retraction as well, is a stale claim always accounted for (`StaleOnlyAfterLoss`)? Does a value set by a user stand (`AssertionHolds`)? Is the rescore of a score-affecting claim owed until it is done, if no retraction changed it (`FollowUpOwed`)? Is the arrival at a hot value announced (`EntryAnnounced`)? | one follow-up target, 2 changes with or without a value, the engine, one caller that settles and records, one that retracts, users set values, one fault of any kind |
| `lock_holds` | Who can be at work together (`Exclusive`)? Who can be turned away, and by what (`RefusalNamesAWriter`)? Types. | four runs, two jobs, three holders, leases of 1 and 2, three ticks, one fault |
| `deliveries` | Does the outbox keep `DeliveryPromise` (`KeepsPromise`)? Does an event die early (`DeadIsEarned`) or late (`GivesUp`)? Does every row settle (`Settles`)? Types. | one event enqueued by two producers, one test, one subscription, two attempts, two faults, fair |
| `inbox` | Is an answered delivery owed until it is applied or out of attempts (`AnsweredIsOwed`)? Is anything given up on early (`GivenUpIsEarned`)? Does every row settle (`RowsSettle`)? Types. | two deliveries (one answered first, one held), two sweeps, three attempts, one fault, fair |
| `backfills` | Is a connected source owed its backfill (`ConnectedIsOwed`)? Does a past that failed to read stay readable (`FailedStaysReadable`)? Is a yes asked for twice (`StartedStays`)? Does every started job end or stand paused for a cause that lasts (`StartedEnds`)? Types. | one source, a click, a payment, an import, one worker, two jobs, two attempts, one fault, fair |
| `approvals` | Does only what was shown and approved act (`ActsAsShown`)? What does it take for a step to act twice (`RepeatIsStale`)? Does a skipped run act (`SkippedNeverActs`)? Types. | seven steps of every kind, two people, four asks, one edit, one crash |
| `hygiene` | Is anything proposed or written on the CRM's own word (`BackedByOthers`)? Which edits can a write overwrite (`ClobberIsRaced`)? Is a dismissed value raised again (`NoNag`)? Was what says applied written (`AppliedWasWritten`)? In which ways can the sync's cursor pass a change that was not worked through (`CursorIsEarned`), or the sync mute what Nous never wrote (`MutedWasWritten`)? | two values, one run, one request, the sync; two observations, two proposals that age, up to two edits by people and two decisions, three of these together; symmetric in the values |
| `after_call` | Do queue and webhook ever both start a call's run in a seat (`OnceUnlessMoved`), or neither (`KeptUnlessMoved`)? What does it take for two recordings of a call to start two runs (`OneCall`)? Do the webhooks end up matching the toggles (`WebhooksMatch`), and does the queue empty (`QueueEmpties`)? | one seat, two recordings, one request, two attempts, one edit, one fault, fair |

### Violations: where the documentation and the code part

| Run | What the repository says | What the run shows |
| --- | --- | --- |
| `approved_twice` | claimed atomically, so two people pressing at once run it once (`automationRun.mjs:2370`) | both read the same pause; the first runs on to the next pause; the second's claim, guarded by the status alone, takes that one and repeats the step that ran |
| `watermark` | the timestamp through which this workspace's history has already been pulled (`workspace_backfill_watermark.sql:1`) | the job of a CSV import, which reads its own accounts only, stamps it for the whole workspace |
| `retracted` | a retraction unsays: the fact re-derives as if the observation had never happened (`observations.mjs:41-42`) | the last observation is retracted, which invalidates the claim; what is observed later is derived into the same row, which stays invalidated (`claims.ts:393`) |

### Divergences without a run of their own

The models show these too. Each is a disjunct of an action, and the passing
property named here makes room for it, so that a reader sees it there:

* "Asserted claims are sticky [...] derivation from observations must not overwrite it"
  (`claims.ts:361`; "the engine refuses to overwrite it", `docs/context-graph.md:85`), but
  the check reads the row at `claims.ts:364` and the upsert at 393 (553 in the batch) comes
  two round trips later: an assertion in between is overwritten. `Assert` forgets `fixed`
  when a recompute is past its check, and `AssertionHolds` speaks of the others.
* "Nothing is starved" (`claimEngine.mjs:79`), but jobs that fail stay at the head of the
  order (`:83`) and a sweep in which all failed ends the tick (`:140`): a batch of jobs that
  always fail is all that is ever read. The disjunct `Crowded` of `Converges`.
* "If that was the last observation for the property, the claim is invalidated"
  (`observations.mjs:40-41`), but the count takes observations without a value in (`:65-69`) and
  `deriveClaim` passes them over (`claims.ts:169-170`): where only such are left the claim is
  neither invalidated nor derived anew, and stands. `RetractCount`, and the first disjunct of
  `Settled`.
* "Every job checks '*' as well as its own, so "one writer" means one" (`backfillLock.ts:13`),
  but the rows are read and then upserted unconditionally (`:90`): two runs that read before
  either writes both proceed. The first excuse in `Exclusive`.
* "Subscription was deactivated after enqueue. Mark as dead, no retry"
  (`triggerDelivery.mjs:48`), but `markFailure` schedules another attempt: `SkipInactive`.
* A queue for "loss-tolerance" (`webhookInbox.mjs:5`) loses what Fellow sends when the
  worker dies, and what the insert of the retry row fails on: `forgotten` in
  `AnsweredIsOwed`.
* A waiting import job takes a connect's place: the debounce counts any pending job
  (`historyBackfill.mjs:42`), and an import's job covers its own accounts only. Two connects
  at once both find no waiting row and both insert one, though "one waiting backfill per
  workspace" (`:111`): `LookForWaiting`, `WriteWaiting`.
* A row re-priced as over the ceiling between a click's read and its write is started all the
  same, since the write is guarded by the status only: `ReadForStart`, `Start`.
* "Optimistic on the status we just read, so a concurrent tick can't double-run the same job"
  (`contactEnrichmentJobs.mjs:343`): for a job that is running and stale the status read is
  the status written, so two workers can both take it. The instance has one worker, as the
  deployment does; `Claim` shows it.
* A pause counts as an attempt, and only a resume after the provider's gives the attempts back;
  a job that a dead worker left running is not capped: `Resumed`, `GivesUp`.
* After a backfill that died with a source unread, the job of an import stamps the watermark
  over it: that is `watermark`. `FailedStaysReadable` speaks only of what was missed of the
  accounts of the run that stamps.
* "So the move to webhooks never runs a call twice and never drops one: until the webhook
  exists, this queue keeps it" (`githubDispatch.ts:59-60`), but who has moved is read once
  (`:62`) and the webhooks once more when the event is emitted (`events.mjs:255`): a webhook made
  between the two runs the call twice, one removed drops it. A webhook of another seat removed
  before the insert (`events.mjs:311`) drops the event for all. Errors of these reads are taken
  for nobody (`githubDispatch.ts:50`, `managedWebhooks.ts:145`): `shifted` and `blind` in
  `OnceUnlessMoved`, `shifted` and `hurt` in `KeptUnlessMoved`.
* "Once per call: a re-review from a second recording skips it" (`callScore.mjs:585`), but two
  recordings reviewed at once both find no scorecard, and a look that fails finds none either.
  And "Doing it HERE [...] guarantees the after-call run always reads a ready score"
  (`:583-585`), but `upsertScorecard` does not look at its error (`callScorecards.ts:38`): runs
  start with no scorecard stored, and the next recording finds none. `unseen` in `OneCall`,
  `lost` in `Store`.
* Two clicks on Send both find the draft unsent and both send it, and a run's outcome is
  written with a step log copied earlier, which loses a "sent" mark: `SentFromDraft`, `Save`.
  A run whose process died stays running; no sweep looks for it: `Crash`.
* `recomputeClaim` ignores the error of its read of the existing claim
  (`claims.ts:364`), so an unanswered read lets it overwrite an asserted value:
  `ReadNoRows`, and `blind` in `AssertionHolds`.
* An older recompute may write last with the queue empty, though "a new observation
  always pulls the belief back toward truth" (`claimEngine.mjs:5`): `lost` in
  `StaleOnlyAfterLoss`.
* "A changed job title or stage re-scores the ICP prediction" (`settleClaimQueue.ts:13-14`),
  but only through the engine, which learns of it from the queue, and a retraction queues
  nothing: the claim it changes is current, the prediction made from the old one stands
  (`observations.mjs:72`). The disjunct `Retracted` of `FollowUpOwed`.
* A retraction of the last observation hides an asserted value, though "manual
  edits are pinned" (`docs/identity-resolution.md:282`): `RetractHide` resets
  `fixed`. A count that fails counts as zero (`observations.mjs:65-69`):
  `RetractNoCount`.
* "A second run refuses to start" (`backfillLock.ts:5`), but two runs of one script in
  one process are one holder, and the first to end deletes the row of both: `Blocks`,
  and `excused` in `Release`. "Renewed while it works" (`backfillLock.ts:9`), but
  nothing in the repository calls `renew`: `Tick` excuses those who outlive their
  lease.
* "The worker never retries" a test (`webhookDeliveries.ts:636`), but does when the
  settling update was lost: `TestLost`, then `Send`.
* "One event to every active subscription" (`triggers.ts:400`), but one
  subscription deleted between the lookup and the insert fails the insert for all:
  the second disjunct of `InsertRows`.

* "Bail if the record moved since we proposed" and "any write is reversible"
  (`crmApply.ts:3-4`), but the patch is not conditional on what was re-read (`:53-65`): an edit made between the two is
  overwritten, and the value on record as the one to go back to is not the one that was
  lost. The second disjunct of `ClobberIsRaced`.
* "Each write suppresses exactly one echo, so a genuine later human edit to the same value
  isn't muted forever" (`crmWriteState.ts:36-37`), but the record of a write is matched by
  value, whoever put it there: what is skipped may be a person's own edit. `IsEcho`;
  `MutedWasWritten` promises no more than that Nous wrote the value once.
* A record of a write that could not be deleted mutes again; one that could not be stored,
  or was consumed by a sync that then failed, lets the echo in as an observation from the
  CRM: `Remember`, `Consume`, `PullFails`. `BackedByOthers` is what keeps the loop open
  all the same.
* Two overlapping runs both find no open proposal and both insert one; a row that is
  dismissed can still be approved, and one that was applied approved again, after which it
  says failed though its value is in the CRM: `LookForOpen`, `Approve`, `Settle`.
* The watermark moves to the end of a run whatever the run looked at: without a token, with
  an unanswered read or past the cap nothing was compared, and an observation ingested while
  the run works falls before the stamp: `FetchField`, `Mark`.
* A value "dismissed within the window" is not raised again (`crmReconcile.ts:103-105`), but the
  window is counted from the day the proposal was raised (`:125`), and a look that is not
  answered has found nothing dismissed (`:117, 127`): `Age`, `Rejected`, `LookForRejected`.
* The cursor moves "only on a clean run [...] so nothing is missed" (`crmSync.mjs:104-105`),
  but `upsertContact` does not look at the error of its update and only warns of a refused insert
  (`crm/index.ts:2122, 2134`): a record that was not stored is passed. And the page cap
  "continues, never skips" (`crm/index.ts:2733-2734`), but the resume point is that of the
  kinds that were cut (`:3561-3564`): where only another kind was, it may lie past a contact
  that changed after the contacts were read. `"lost"` and `"others"` in `CursorIsEarned`.
* An echo is skipped when its write is found: a look that is not answered, or comes 14 days
  later, skips nothing, and the echo is taken for evidence from the CRM (`crmWriteState.ts:47-54`):
  `LookForEcho`. `BackedByOthers` holds all the same.
* The contacts view compares a pulled value with the claim, so an edit back to a value that
  a claim still to be derived holds is not ingested, and the cursor passes it: `Upsert`.

### Bounds

`MaxVer` bounds the changes of one target's log, `MaxFault` the faults, `MaxTime`
the clock. Two changes are what it takes for a stale read, write or delete to matter
(one that was read, one that arrives before the write or the delete); three let
what repairs it arrive as well, or a retraction go in between. Targets do not
interact except through the batches of the queue, so one target is enough for the
properties about writers and two (one poisoned) for those about the queue. In `writers`
one caller, `s1`, is a settle and a record request in turn, which overlaps either with the
engine and with the retraction (with a caller each the instance is too large); users set
values there and clear them in `engine_alone`. In
`engine_alone` a batch has two places: it is full of the poisoned target's jobs or has room
for the other's, and a sweep leaves something for the next. `retracted` needs three changes of
one target (said, unsaid, said again) and no fault. Two values, one of them
hot, and two time stamps make newer, older and tied observations. Four runs make
every conflict the lock knows (same job and other holder, same holder,
workspace-wide and its reverse); leases of 1 and 2 with three ticks let a run outlive
its lease and be outlived. Two attempts are the smallest cap with a retry; two
producers enqueue an event that another already did. Two sweeps and three
attempts let a late mark of one sweep undo, and fall short of, those of the other. Two
jobs and two attempts are the fewest with a source connected under a running job, and with
a job that gives up; one source, as what a job reads of one does not depend on the others.
In `after_call` two recordings make the race, one edit moves the seat either way while a
reconcile works from its list, and one fault hits any query; one seat, since seats meet only in
the statement that inserts for all of them. The plan of `approvals` has a step of every kind, two pauses and an AI step
between them; four asks let two people each act twice on them. In `hygiene` two
observations are the fewest with a claim confident enough to be proposed, of which one
may be the CRM's; two edits and two decisions, three of these together (`MaxActs`), over two
proposals let an edit or a decision fall between any two steps of the run, the request and
the sync, and the second edit is what it takes to pull a value back and clear it for a run
to raise it: one edit puts a value there, the other takes it away. The safety
properties of all these modules are proved for all instances, below; for
these the bounds matter only as evidence that the cases occur: `deliveries` has one
subscription, `hygiene` one run and one request, `after_call` one seat, `backfills` one
source, the theorems any number. Symmetry is used where a run checks
no liveness and the permuted people, sources or values are interchangeable (`approvals`,
`hygiene`).

### Deadlock

The runs of all modules but `BackfillLock` say `CHECK_DEADLOCK FALSE` where
the system may really stop: nothing queued, nothing in flight, the bound on
changes, asks or faults reached, every event, row or job settled. `lock_holds` checks
deadlock, since a run may always be started again.

### Fairness

`EngineFairness`: cron starts a tick each minute (`apps/worker/src/index.mjs`), so
a sweep that can start does; a tick that started gets its answers or fails.
Users, imports and requests owe nothing, and no fault is required to happen or
to stop (their number is bounded). `WF(t \in Poison /\ Fail(t))` is the
answer "no" of a database that always rejects a target.

`OutboxFairness`: cron starts a tick every 30 seconds; a send ends within its
ten-second timeout, so each turn ends; time passes, so a row comes due; a test in
progress ends. `Settles` assumes that the trial is not lapsed for good, since a
lapsed one defers its events by an hour each time, as intended.

`InboxFairness`: cron starts a sweep each minute, every query and reprocessor ends, time
passes. Nothing is assumed of senders or of how runs end.

`BackfillJobs`' `FairSpec`: the timer starts ticks and a run goes on by itself, and a lock
that nobody renews ages. Nothing is owed by customers, purses or the provider, which is
why `StartedEnds` allows a pause whose cause lasts.

`AfterCall`'s `FairSpec`: cron starts a reconcile every five minutes and a drain twice a
minute (`apps/worker/src/index.mjs:734-758`), and what they start goes on. People, their
requests and the reviews owe nothing; that edits end is a bound of the instance, and
`WebhooksMatch` says what holds from then on.

`AutomationRuns` and `CrmHygiene` promise no liveness: people owe nothing, a dead process
is not replaced, and a run or a sync that fails is simply followed by the next.

## 5. Proofs

Checked by TLAPS, for every value of the constants that the named assumptions
allow (`ConstantsAssumption`, `LockAssumption`, `OutboxAssumption`, `InboxAssumption`,
`JobsAssumption`, in `AutomationRuns` one assumption per constant, in `CrmHygiene` `BlankAssumption` and `BoundsAssumption`, `AfterCallAssumption`; TLC
evaluates them on each run).

### `ClaimEngineProofs`

* `TypeCorrect` — `TypeOK` is inductive as it stands.
* `AssertionsHold` — `AssertionHolds` is not inductive: a recompute past its sticky
  check would overwrite the value. `AInv` adds `NoRace`: no recompute is past its
  read of a row whose `fixed` value is protected. The assertion forgets `fixed`
  when one is, and `ReadRows` does not pass such a row unless the read goes
  unanswered, which puts it in `blind`.
* `StaleHasReason` — `StaleOnlyAfterLoss`. `FInv` says where each change of the log
  is: `Owed` (a target whose latest change no finished recompute has read has its
  job queued, or a retraction that `Heals` it), `HeldJobs` (a job somebody will
  delete belongs to a change that was read, or that its holder has yet to read or
  write), `Planned` (what a caller will write is a winner of the observations, if it
  read the latest change), `Fresh` (a target whose latest change was covered and
  lost nothing is settled), `Bounded` (no job or read is ahead of the log). The hard
  steps are the two deletes, where `HeldJobs` gives that every deleted job was
  covered, and `Write`, where `Fresh` follows from `Planned` or the write is
  recorded as a loss.
* `EngineAloneKeepsUp` — without settles and inline recomputes nothing is lost
  (`Solo`: one call per target, whose read is no older than what was covered), so
  `FInv` gives `CurrentOrQueued`.
* `EntriesAnnounced` — `EntryAnnounced` says nothing of a recompute that found the hot value
  there already and leaves the event to whoever wrote it. `EInv` adds `FoundHot`: whatever a
  caller found hot is announced, dropped for a known reason, or somebody else's to announce
  (`Told`). `QuietTick` (outside a sweep the engine has no call) and `NoGhost` (no row is not a
  live row) make the steps go through. `TellStep` is the frame: a step that takes an
  announcement from a caller announces it or puts it into `dropped`.
* `FollowUpsOwed` — `FollowUpOwed`. A write marks the prediction stale, and nothing in the
  step says who will rescore it: the claim must be about to change only when a job is there.
  `UInv` joins `FInv` and `AInv` to that. Without a job and without a retraction on its way
  (`RetractionsShow`), `Owed` gives that the latest change was covered and `Fresh` that the
  claim is a winner of the log already; what the caller planned is one too, or the write is a
  recorded loss; where the winners agree the write changes nothing (`OweWrite`). `Pinned` and
  `NoRace` exclude that it lands on an assertion. The other half is that nobody takes the job
  away: a settle leaves it (`WorkerOwes`), the engine turns it into a rescore it owes
  (`EngineOwes`). `Numbered` (each change of the log has its own number) is what shows a
  retraction. The proof found what the run could not: with two changes of the log a
  retraction has no time to leave a prediction stale, with three it does; hence `Retracted`.

### `BackfillLockProofs`

* `LockTypeCorrect` — types, with "no expiry without a holder".
* `ExclusionHolds` — `LInv` adds that a run that is not excused has its row
  (`AllCovered`), that a run past its reads saw no conflicting run at work that is
  not excused (`SawNobody`), and that no run started in the future (`StartedPast`):
  a row that protects a run now blocked every reader that started before.
* `RefusalsAreJustified` — `NoLeak`: a row belongs to a run at work or to one in
  `leaked`; `OnlyWideReadsOthers`.

### `WebhookOutboxProofs`

One inductive invariant, `OInv`: `WorkerOK` (what the worker sends is of its batch,
and an answer "ok" means that the receiver took it), `RowOK` (a row of the batch
still has the attempts it was read with, unless its subscription took it along: this
is why a stale snapshot does no harm while there is one worker), `CountOK` (attempts
on record against turns taken), `TestOK` (the worker does not hold a test in
flight). From it `OutboxTypeCorrect`, `DeadWasEarned`, `WorkerGivesUp`, and
`PromiseKept`: under the mapping `Status`, each step is a step of `DeliveryPromise`
or a stutter (`PStep`). The cap is any number up to the mark of a permanent
failure, 99, which the code counts as attempts.

### `WebhookInboxProofs`

`IInv`: a row, and the copy of it in a batch, count no more attempts than the delivery has
failed (`RowFits`, `BatchFits`); a run about to be marked had its effect, or failed once
more than its copy counts (`MarkFits`); a held delivery is owed from the moment it is
stored (`RequestFits`). Each write of a row is shown to be a `GoodRow`, whichever sweep
makes it and however old its batch is: this is why overlapping sweeps, which bring rows
back and lose attempts, still neither give up early nor close what was not applied. From
it `InboxTypeCorrect`, `GivenUpWasEarned`, `AnsweredStaysOwed`, for any number of sweeps.

### `BackfillJobsProofs`

* `BackfillTypes` — `TypeOK`, with `HasJob`: a worker that is not idle has a row in its hands.
* `StartedOnce` — `StartedStays`, for any number of workers: each step writes a row in one of a
  few ways (`OneWrite`, `RowsMove`), and none takes a row that was started back to waiting.
* `ConnectedStaysOwed` — `ConnectedIsOwed`. `BInv` adds `SourceFits` (a source that no request
  is about to queue was tried, or a job is going to see it, or its queueing failed), `RowHeld`
  (the row in a worker's hands is running until its run is over) and `ReadFits` (what a run has
  read, has still to read, or has missed is of the sources it saw). The hard steps are a claim, which fixes
  the sources a run will see, and a throw, which gives the row back.
* `FailedCanBeRead` — `FailedStaysReadable`, from `ReadFits`: a run that stamps has failed at
  none of its sources.

The last two are stated for `OneWorker`, which is what the code relies on: ticks of a process
are kept apart by a flag (`contactEnrichmentJobs.mjs:10, 319`), and a second process is not
planned for ("Single worker, so no compare-and-set needed",
`apps/api/src/routes/personalGithubSync.mjs:93`). It is needed: with two workers, one of which
takes over a job whose lock went stale, TLC finds a throw of the first that puts the row back
under the second, after which the source is in nobody's sight, and a run that stamps while
the other has missed a source.

### `AutomationRunsProofs`

* `TypeCorrect` — `TypeOK` with `Base`: a paused row stands at a step that needs a person,
  and its bundle is made of such steps.
* `SkippedStaysSkipped` — `OneWalk`: at most one process walks, never while the run waits
  or is rejected, and nobody once it was skipped. Every claim needs a waiting row and
  leaves it running or rejected.
* `ActsWereShown` — `Shown`: what a walk still has a yes for was granted with the words
  the walk carries, and no AI step or rule comes before it (`WalkGranted`), since a bundle
  ends where the words could change (`Together`).
* `RepeatsAreStale` — `Current` (without a stale claim, everyone's copy who can still claim
  is of the present pause) and `Ahead` (the walk stands past every step that acted).

### `CrmHygieneProofs`

One inductive invariant, `Sound`; every step is first shown to be one of four kinds
(`Moves`: of the world, a run, a request, the sync), which share a `Frame` (the log and the
rows only grow, rows keep their contents, the record changes once at a time).

* `TypesOK` — types.
* `Backed` — with `PlanBacked`: a plan that a run carries from `Decide` to `Insert` has its
  own evidence, which the log never loses.
* `Applied` — with `AsksFit`: a request that reports "applied" has its row in `wrote`.
* `EditsSurvive` — the last part of `AsksFit`: until the record changes, the CRM holds what
  the re-read compared.
* `NoNagging` — `SnubsStand`: a plan past its look at the dismissed is none of those it could
  have seen there, dismissed since before the run started and not aged. `Snub` drops what an
  unanswered look hid from the run (`Deaf`), and what has aged.
* `MutesOwn` — `WrittenFits` and `PullFits`: the record of a write, and what a sync took for
  an echo, was proposed by a row that was written.
* `CursorEarned` — from `PullFits`: a sync that ends without having worked the record through
  or let it go has got no further than a change before the last, or found the cursor at the
  last already; and unless its contacts were cut short it started no later than the change
  it got.

### `AfterCallProofs`

One inductive invariant, `CallInv`: `Looking` (a review that is past its look is in `looked`,
and what it holds is of its own), `WayFits` (a way on record is one the seat had: unless the
seat's webhook shifted since, a stored way 0 means that it has no webhook, a stored way `n`
that `n` is its webhook), `Kept` (each seat the review wanted is served, still in its hands,
or excused) and `OneOpens` (of two recordings past their looks with a run to start, one could not see the
other's scorecard).
The argument is in the steps that disturb two processes at once: a webhook that comes or goes
puts its seat into `shifted` for every review that has begun to look, so that each clause
either is about another seat or is excused (`Aside`, `WriteHook`, `Frame`). From it
`AfterCallTypes`, `NoSecondRun`, `NoneDropped`, `OneCallOneRun`, for any number of seats,
recordings, requests and faults.

### Only model-checked

`Converges`, `Settles`, `RowsSettle`, `StartedEnds`, `WebhooksMatch`, `QueueEmpties` (liveness under fairness is beyond the prover), and the
violation runs, which are counterexamples.

## 6. Limits

What the models take for granted: a statement is atomic and what it wrote is
visible to the next; the answer of a write may be lost only where the model says so;
one worker process; the clocks of hosts agree. What is not modelled is listed in
section 1. The hazards that no property covers yet are listed in `PROJECT.json` with
the module of the plan that will.
