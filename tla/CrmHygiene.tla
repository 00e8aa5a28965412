----------------------------- MODULE CrmHygiene -----------------------------
(***************************************************************************)
(* CRM hygiene for one reconciled field of one CRM record: a run compares  *)
(* the claim with the CRM and queues a proposal, a person decides, an      *)
(* approved proposal is written to the live CRM, and the sync pulls the    *)
(* record back, skipping what it takes for Nous's own write                *)
(* (packages/core/src/services/crmHygiene.ts, crmReconcile.ts,             *)
(* crmApply.ts and db/crmWriteState.ts).                                   *)
(*                                                                         *)
(* Observations are kept in the order they were ingested, which is taken   *)
(* for the order of observed_at; a claim is the number of observations it  *)
(* was derived from; values are compared normalised.                       *)
(***************************************************************************)
EXTENDS Naturals, Sequences, FiniteSets

CONSTANTS
  Value,         \* values of the field
  Blank,         \* an empty field, or no row
  Run,           \* hygiene runs, of the worker and of "run now"
  Ask,           \* requests that approve a proposal
  MaxObs,        \* bound on the observations of the field
  MaxEdits,      \* bound on the changes people make to the record
  MaxProposals,  \* bound on the proposals raised
  MaxAsks,       \* bound on the decisions people take
  MaxActs        \* bound on changes and decisions together

ASSUME BlankAssumption == Blank \notin Value
ASSUME BoundsAssumption ==
  MaxObs \in Nat /\ MaxEdits \in Nat /\ MaxProposals \in Nat /\ MaxAsks \in Nat /\ MaxActs \in Nat

Field == Value \cup {Blank}
Observation == [value : Value, own : BOOLEAN]
Kinds == {"field_fill", "field_update", "conflict"}
Statuses == {"proposed", "approved", "dismissed", "applied", "failed"}
Proposal == [status : Statuses, kind : Kinds, current : Field, proposed : Value]

VARIABLES
  crm,        \* the field as the CRM holds it: value, who put it, change count
  edits,      \* how many changes people have made
  log,        \* observations of the field: own evidence, or pulled from the CRM
  derived,    \* observations the claim was derived from
  mark,       \* hygiene_last_run_at, as observations ingested before it
  proposals,  \* crm_hygiene_proposals, in order
  aged,       \* those dismissed ones that were raised over 90 days ago
  written,    \* crm_write_state: what Nous last wrote, until consumed
  run,        \* each hygiene run, with what it has read
  ask,        \* each approval, with what it has read
  asks,       \* how many decisions were taken
  pull,       \* the sync, with the record it fetched
  seen,       \* last_synced_at, as changes of the record before it
  wrote,      \* history: the proposals written to the CRM
  snubbed     \* history: per run, proposals dismissed ever since it started

vars == <<crm, edits, log, derived, mark, proposals, aged, written, run, ask, asks,
          pull, seen, wrote, snubbed>>

-----------------------------------------------------------------------------
\* The claim derived from the first n observations (deriveClaim).

ClaimValue(n) == IF n = 0 THEN Blank ELSE log[n].value
Support(n) == {i \in 1..n : log[i].value = log[n].value}

AtMost(n, most) == IF n < most THEN n ELSE most

\* 0.55 + 0.08 per further supporting observation (at most 4) - 0.1 per
\* contradicting one (at most 3) reaches the threshold 0.6, in hundredths.
Confident(n) ==
  LET support == Cardinality(Support(n))
  IN 8 * AtMost(support - 1, 4) >= 5 + 10 * AtMost(n - support, 3)

\* A mutant: CRM evidence alone will do.
PassesAnyway(n) == TRUE

\* The loop-prevention gate: one source of the value is no CRM.
Passes(n) == \E i \in Support(n) : log[i].own

\* What a run decides for the CRM value v and the claim n (decideReconcile):
\* an aging claim never overwrites, older ones are not considered at all.
KindFor(v, fresh) ==
  CASE v = Blank -> "field_fill"
    [] v # Blank /\ fresh -> "field_update"
    [] OTHER -> "conflict"

Decisions(v, n) ==
  {[kind |-> KindFor(v, fresh), current |-> v, proposed |-> ClaimValue(n)] :
     fresh \in {f \in BOOLEAN : /\ n > 0 /\ Confident(n) /\ Passes(n)
                                /\ ClaimValue(n) # v}}

Dismissed(ps) == {i \in DOMAIN ps : ps[i].status = "dismissed"}

\* hasOpenProposal and isSuppressedByRejection.
OpenLike(plan) ==
  \E i \in DOMAIN proposals : /\ proposals[i].status = "proposed"
                              /\ proposals[i].kind = plan.kind

\* A mutant: rejection memory is not consulted.
NeverRejected(plan) == FALSE

\* Only what was raised in the last 90 days is remembered.
Rejected(plan) ==
  \E i \in DOMAIN proposals : /\ i \notin aged
                              /\ proposals[i].status = "dismissed"
                              /\ proposals[i].proposed = plan.proposed

Applyable(kind) == kind \in {"field_fill", "field_update"}

-----------------------------------------------------------------------------
\* The world: people edit the CRM, evidence comes in, claims are derived.

Set(v, by) == crm' = [value |-> v, by |-> by, rev |-> crm.rev + 1]

HumanEdit ==
  /\ edits < MaxEdits /\ edits + asks < MaxActs
  /\ edits' = edits + 1
  /\ \E v \in Field \ {crm.value} : Set(v, "human")
  /\ UNCHANGED <<log, derived, mark, proposals, aged, written, run, ask, asks, pull, seen, wrote>>

Ingest(v, own) ==
  /\ Len(log) < MaxObs
  /\ log' = Append(log, [value |-> v, own |-> own])

Observe ==
  /\ \E v \in Value : Ingest(v, TRUE)
  /\ UNCHANGED <<crm, edits, derived, mark, proposals, aged, written, run, ask, asks, pull, seen, wrote>>

Derive ==
  /\ derived # Len(log)
  /\ derived' = Len(log)
  /\ UNCHANGED <<crm, edits, log, mark, proposals, aged, written, run, ask, asks, pull, seen, wrote>>

\* Age counts for what was dismissed; no run can raise a proposal after the last.
Age ==
  /\ \E i \in Dismissed(proposals) \ aged : i < MaxProposals /\ aged' = aged \cup {i}
  /\ UNCHANGED <<crm, edits, log, derived, mark, proposals, written, run, ask, asks, pull, seen, wrote>>

-----------------------------------------------------------------------------
\* A hygiene run (runHygieneForConfig, runReconcilePass, reconcileEntity).

unchangedByRun == <<crm, edits, log, derived, aged, written, ask, asks, pull, seen, wrote>>

NoPlan == [kind |-> "conflict", current |-> Blank, proposed |-> Blank]
IdleRun == [pc |-> "idle", since |-> 0, plan |-> NoPlan]

\* The run goes on with a plan; with none, to its end.
Plan(r, pc, plan) == run' = [run EXCEPT ![r] = [pc |-> pc, since |-> 0, plan |-> plan]]
Drop(r) == Plan(r, "mark", NoPlan)

\* The configuration is read, with the watermark of the run before.
StartRun(r) ==
  /\ run[r].pc = "idle"
  /\ run' = [run EXCEPT ![r] = [IdleRun EXCEPT !.pc = "scan", !.since = mark]]
  /\ UNCHANGED <<mark, proposals, unchangedByRun>>

\* A record observed since is looked at, and the CRM asked what it holds;
\* it is not without a token, an observation or an answer, nor past the cap.
FetchField(r) ==
  /\ run[r].pc = "scan"
  /\ \/ /\ Len(log) > run[r].since
        /\ Plan(r, "decide", [NoPlan EXCEPT !.current = crm.value])
     \/ Drop(r)
  /\ UNCHANGED <<mark, proposals, unchangedByRun>>

\* The claim is read, weighed and compared.
Decide(r) ==
  /\ run[r].pc = "decide"
  /\ LET ds == Decisions(run[r].plan.current, derived)
     IN \/ \E d \in ds : Plan(r, "open", d)
        \/ ds = {} /\ Drop(r)
  /\ UNCHANGED <<mark, proposals, unchangedByRun>>

\* Neither look notices that it went unanswered: it has then found nothing.
LookForOpen(r) ==
  /\ run[r].pc = "open"
  /\ \/ OpenLike(run[r].plan) /\ Drop(r)
     \/ Plan(r, "rejected", run[r].plan)
  /\ UNCHANGED <<mark, proposals, unchangedByRun>>

LookForRejected(r) ==
  /\ run[r].pc = "rejected"
  /\ \/ Rejected(run[r].plan) /\ Drop(r)
     \/ Plan(r, "insert", run[r].plan)
  /\ UNCHANGED <<mark, proposals, unchangedByRun>>

\* The insert may fail, which the run does not notice.
Insert(r) ==
  /\ run[r].pc = "insert"
  /\ \/ /\ Len(proposals) < MaxProposals
        /\ proposals' = Append(proposals,
             [status |-> "proposed", kind |-> run[r].plan.kind,
              current |-> run[r].plan.current, proposed |-> run[r].plan.proposed])
     \/ UNCHANGED proposals
  /\ Drop(r)
  /\ UNCHANGED <<mark, unchangedByRun>>

\* The watermark is the time of the end, whatever the run got to look at.
Mark(r) ==
  /\ run[r].pc = "mark"
  /\ mark' = Len(log)
  /\ run' = [run EXCEPT ![r] = IdleRun]
  /\ UNCHANGED <<proposals, unchangedByRun>>

RunDies(r) ==
  /\ run[r].pc # "idle"
  /\ run' = [run EXCEPT ![r] = IdleRun]
  /\ UNCHANGED <<mark, proposals, unchangedByRun>>

-----------------------------------------------------------------------------
\* Decisions on a proposal, and the write to the CRM (applyProposal).

unchangedByAsk == <<edits, log, derived, mark, aged, run, pull, seen>>

IdleAsk == [pc |-> "idle", row |-> 0, rev |-> 0, outcome |-> "failed"]

Status(i, s) == proposals' = [proposals EXCEPT ![i].status = s]

\* A request decides on a row.
Decided(i, s) ==
  /\ asks < MaxAsks /\ edits + asks < MaxActs
  /\ asks' = asks + 1
  /\ Status(i, s)

\* A dismissal, an approval of a kind that is never written, or any decision
\* made through /v2/workspace: the row's status, whatever it was.
Record(i) ==
  /\ \E s \in {"approved", "dismissed"} : Decided(i, s)
  /\ UNCHANGED <<crm, written, ask, wrote, unchangedByAsk>>

Approve(a, i) ==
  /\ ask[a].pc = "idle"
  /\ Applyable(proposals[i].kind)
  /\ Decided(i, "approved")
  /\ ask' = [ask EXCEPT ![a] = [IdleAsk EXCEPT !.pc = "reread", !.row = i]]
  /\ UNCHANGED <<crm, written, wrote, unchangedByAsk>>

\* No token, no answer, no such record.
Refused(a) ==
  /\ ask[a].pc \in {"reread", "patch"}
  /\ ask' = [ask EXCEPT ![a].pc = "settle", ![a].rev = 0]
  /\ UNCHANGED <<crm, proposals, written, wrote, asks, unchangedByAsk>>

\* A mutant: the value is not compared.
RereadBlindly(a) ==
  /\ ask[a].pc = "reread"
  /\ ask' = [ask EXCEPT ![a].pc = "patch", ![a].rev = crm.rev]
  /\ UNCHANGED <<crm, proposals, written, wrote, asks, unchangedByAsk>>

\* The CRM must still hold what the proposal was raised against.
Reread(a) ==
  /\ ask[a].pc = "reread"
  /\ ask' = IF crm.value = proposals[ask[a].row].current
            THEN [ask EXCEPT ![a].pc = "patch", ![a].rev = crm.rev]
            ELSE [ask EXCEPT ![a].pc = "settle"]
  /\ UNCHANGED <<crm, proposals, written, wrote, asks, unchangedByAsk>>

Patch(a) ==
  /\ ask[a].pc = "patch"
  /\ Set(proposals[ask[a].row].proposed, "nous")
  /\ wrote' = wrote \cup {ask[a].row}
  /\ ask' = [ask EXCEPT ![a].pc = "remember", ![a].rev = 0]
  /\ UNCHANGED <<proposals, written, asks, unchangedByAsk>>

\* Best effort: the record of the write may be missing.
Remember(a) ==
  /\ ask[a].pc = "remember"
  /\ written' \in {written, proposals[ask[a].row].proposed}
  /\ ask' = [ask EXCEPT ![a].pc = "settle", ![a].outcome = "applied"]
  /\ UNCHANGED <<crm, proposals, wrote, asks, unchangedByAsk>>

\* A mutant: what was approved counts as applied.
SettleAsApplied(a) ==
  /\ ask[a].pc = "settle"
  /\ Status(ask[a].row, "applied")
  /\ ask' = [ask EXCEPT ![a] = IdleAsk]
  /\ UNCHANGED <<crm, written, wrote, asks, unchangedByAsk>>

Settle(a) ==
  /\ ask[a].pc = "settle"
  /\ Status(ask[a].row, ask[a].outcome)
  /\ ask' = [ask EXCEPT ![a] = IdleAsk]
  /\ UNCHANGED <<crm, written, wrote, asks, unchangedByAsk>>

\* The request ends half way; after the PATCH, also when its answer is lost.
AskDies(a) ==
  /\ ask[a].pc # "idle"
  /\ ask' = [ask EXCEPT ![a] = IdleAsk]
  /\ UNCHANGED <<crm, proposals, written, wrote, asks, unchangedByAsk>>

-----------------------------------------------------------------------------
\* The sync (syncOneConfig, upsertContact, echoFieldsToSkip).

unchangedByPull == <<crm, edits, derived, mark, proposals, aged, run, ask, asks, wrote>>

IdlePull == [pc |-> "idle", at |-> 0, got |-> 0, value |-> Blank, cut |-> "nothing", how |-> "not"]

BeginPull ==
  /\ pull.pc = "idle"
  /\ pull' = [IdlePull EXCEPT !.pc = "fetch", !.at = crm.rev]
  /\ UNCHANGED <<log, written, seen, unchangedByPull>>

\* The sync has what it can get up to the change `got`, and `how` (history) says what
\* became of the record.  A page cap may have cut short the contacts or another kind.
AtEnd(got, cut, how) ==
  [IdlePull EXCEPT !.pc = "end", !.at = pull.at, !.got = got, !.cut = cut, !.how = how]

Cuts == {"nothing", "contacts", "others"}

\* The provider returns the record if it changed since the cursor, unless the page
\* cap comes first: pages go up to the last one in the order of change.
FetchRecord ==
  /\ pull.pc = "fetch"
  /\ IF crm.rev > seen
     THEN \/ pull' = [pull EXCEPT !.pc = "echo", !.got = crm.rev, !.value = crm.value]
          \/ pull' = AtEnd(crm.rev - 1, "contacts", "not")
     ELSE \E cut \in Cuts : pull' = AtEnd(crm.rev, cut, "not")
  /\ UNCHANGED <<log, written, seen, unchangedByPull>>

\* A mutant: that Nous wrote at all is enough.
EchoOfAnything == pull.value # Blank /\ written # Blank

IsEcho == pull.value # Blank /\ written = pull.value

\* A look that goes unanswered, or a write of more than 14 days ago, skips nothing.
LookForEcho ==
  /\ pull.pc = "echo"
  /\ \/ pull' = [pull EXCEPT !.pc = "upsert"]
     \/ IsEcho /\ pull' = [pull EXCEPT !.pc = "consume"]
  /\ UNCHANGED <<log, written, seen, unchangedByPull>>

\* Deleted by its id, whatever was written into the row meanwhile.
Consume ==
  /\ pull.pc = "consume"
  /\ written' \in {written, Blank}
  /\ \E cut \in Cuts : pull' = AtEnd(pull.got, cut, "heard")
  /\ UNCHANGED <<log, seen, unchangedByPull>>

\* The contacts view: an observation only of a value the claim does not hold.
Stated(v) == v \notin {Blank, ClaimValue(derived)}

\* An update that fails is followed by an insert, and one that is refused is only
\* warned of: the sync goes on with nothing stored.
Upsert ==
  /\ pull.pc = "upsert"
  /\ \E cut \in Cuts :
       \/ /\ IF Stated(pull.value) THEN Ingest(pull.value, FALSE) ELSE UNCHANGED log
          /\ pull' = AtEnd(pull.got, cut, "heard")
       \/ /\ Stated(pull.value)
          /\ pull' = AtEnd(pull.got, cut, "lost")
          /\ UNCHANGED log
  /\ UNCHANGED <<written, seen, unchangedByPull>>

\* A mutant: the cursor moves to where the sync ended.
EndPullNow ==
  /\ pull.pc = "end"
  /\ seen' = crm.rev
  /\ pull' = IdlePull
  /\ UNCHANGED <<log, written, unchangedByPull>>

\* The cursor moves to where a clean sync started.  After one that was cut short it
\* stays, or moves to the last record there was of the kind that was cut: of the
\* contacts, a change up to the one fetched; of another kind, any.
EndPull ==
  /\ pull.pc = "end"
  /\ \/ pull.cut = "nothing" /\ seen' = pull.at
     \/ pull.cut = "contacts" /\ seen' \in seen..pull.got
     \/ pull.cut = "others" /\ seen' \in seen..crm.rev
  /\ pull' = IdlePull
  /\ UNCHANGED <<log, written, unchangedByPull>>

\* Any part of the sync fails: the cursor stays.
PullFails ==
  /\ pull.pc # "idle"
  /\ pull' = IdlePull
  /\ UNCHANGED <<log, written, seen, unchangedByPull>>

-----------------------------------------------------------------------------
Init ==
  /\ crm = [value |-> Blank, by |-> "human", rev |-> 0] /\ edits = 0
  /\ log = <<>>
  /\ derived = 0
  /\ mark = 0
  /\ proposals = <<>> /\ aged = {}
  /\ written = Blank
  /\ run = [r \in Run |-> IdleRun]
  /\ ask = [a \in Ask |-> IdleAsk]
  /\ asks = 0
  /\ pull = IdlePull
  /\ seen = 0
  /\ wrote = {}
  /\ snubbed = [r \in Run |-> {}]

RunStep(r) ==
  \/ StartRun(r) \/ FetchField(r) \/ Decide(r) \/ LookForOpen(r)
  \/ LookForRejected(r) \/ Insert(r) \/ Mark(r) \/ RunDies(r)

AskStep(a) ==
  \/ \E i \in DOMAIN proposals : Approve(a, i)
  \/ Reread(a) \/ Refused(a) \/ Patch(a) \/ Remember(a) \/ Settle(a) \/ AskDies(a)

PullStep ==
  \/ BeginPull \/ FetchRecord \/ LookForEcho \/ Consume \/ Upsert \/ EndPull
  \/ PullFails

\* A run goes on though there is a dismissal for it to find.
Deaf(r) == run[r].pc = "rejected" /\ run'[r].pc = "insert" /\ Rejected(run[r].plan)

\* The history of dismissals: taken when a run starts, kept while they stand, are
\* recent, and were not hidden from the run by a look that went unanswered.
Snub ==
  snubbed' = [r \in Run |->
                IF Deaf(r) THEN {}
                ELSE {i \in Dismissed(proposals') : i \notin aged' /\ (run[r].pc = "idle" \/ i \in snubbed[r])}]

Next ==
  /\ \/ HumanEdit \/ Observe \/ Derive \/ Age
     \/ \E r \in Run : RunStep(r)
     \/ \E i \in DOMAIN proposals : Record(i)
     \/ \E a \in Ask : AskStep(a)
     \/ PullStep
  /\ Snub

Spec == Init /\ [][Next]_vars

-----------------------------------------------------------------------------
\* What every variable may hold.
TypeOK ==
  /\ crm \in [value : Field, by : {"human", "nous"}, rev : Nat] /\ edits \in Nat
  /\ log \in Seq(Observation) /\ Len(log) <= MaxObs
  /\ derived \in 0..Len(log) /\ mark \in 0..Len(log)
  /\ proposals \in Seq(Proposal)
  /\ Len(proposals) <= MaxProposals /\ aged \subseteq DOMAIN proposals
  /\ written \in Field
  /\ run \in [Run -> [pc : {"idle", "scan", "decide", "open", "rejected",
                            "insert", "mark"},
                      since : 0..Len(log),
                      plan : [kind : Kinds, current : Field, proposed : Field]]]
  /\ ask \in [Ask -> [pc : {"idle", "reread", "patch", "remember", "settle"},
                      row : 0..Len(proposals), rev : 0..crm.rev,
                      outcome : {"applied", "failed"}]]
  /\ asks \in 0..MaxAsks
  /\ pull \in [pc : {"idle", "fetch", "echo", "consume", "upsert", "end"},
               at : 0..crm.rev, got : 0..crm.rev, value : Field,
               cut : Cuts, how : {"not", "heard", "lost"}]
  /\ seen \in 0..crm.rev
  /\ wrote \subseteq DOMAIN proposals
  /\ snubbed \in [Run -> SUBSET DOMAIN proposals]

(***************************************************************************)
(* Loop prevention.  Whatever a run or a person makes of a proposal later, *)
(* its value has evidence from outside the CRM, and so has everything      *)
(* Nous ever wrote into the CRM: no value is laundered by pulling it back  *)
(* (crmProvenance.ts:55-62).                                               *)
(***************************************************************************)
HasOwnEvidence(v) == \E k \in DOMAIN log : log[k].own /\ log[k].value = v

BackedByOthers ==
  /\ \A i \in DOMAIN proposals : HasOwnEvidence(proposals[i].proposed)
  /\ crm.by = "nous" => HasOwnEvidence(crm.value)

(***************************************************************************)
(* An edit someone made in the CRM before the re-read is never lost: a     *)
(* write replaces the value its proposal was raised against, or one that   *)
(* was changed after the re-read (crmApply.ts:53-65).                      *)
(***************************************************************************)
ClobberIsRaced ==
  [][\A a \in Ask : Patch(a) =>
       \/ crm.value = proposals[ask[a].row].current
       \/ crm.rev # ask[a].rev]_vars

(***************************************************************************)
(* Rejection memory (crmReconcile.ts:102-106).  A run never raises a value *)
(* that was dismissed before it started and has stayed so, whoever decides *)
(* meanwhile and whatever the CRM holds by then, as long as the dismissed  *)
(* proposal was raised in the last 90 days and the look for it answers.    *)
(***************************************************************************)
NoNag ==
  [][\A r \in Run : Len(proposals') > Len(proposals) /\ run'[r] # run[r] =>
       \A i \in snubbed[r] :
         proposals[i].proposed # proposals'[Len(proposals')].proposed]_vars

(***************************************************************************)
(* The sync's cursor never passes the record as it stands before the sync  *)
(* has worked it through, with the record changing, the sync failing and a *)
(* page cap cutting the contacts short at any moment, unless the record    *)
(* could not be stored and no error says so, or another kind was cut short *)
(* at a later change (crmSync.mjs:104-118).                                *)
(***************************************************************************)
CursorIsEarned ==
  [][seen' # seen /\ seen' = crm.rev =>
       \/ pull.got = crm.rev /\ pull.how \in {"heard", "lost"}
       \/ pull.cut = "others"]_vars

(***************************************************************************)
(* A proposal reported as applied was written to the CRM, whatever other   *)
(* requests decided on the same row (crmApply.ts:31-73, crm.mjs:524-531).  *)
(***************************************************************************)
AppliedWasWritten ==
  \A i \in DOMAIN proposals : proposals[i].status = "applied" => i \in wrote

(***************************************************************************)
(* What a sync skips as an echo is a value Nous wrote into this field; one *)
(* that only people ever put there is heard (crmWriteState.ts:33-63).      *)
(***************************************************************************)
MutedWasWritten ==
  [][Consume => \E i \in wrote : proposals[i].proposed = pull.value]_vars
=============================================================================
