--------------------------- MODULE AutomationRuns ---------------------------
(***************************************************************************)
(* One run of an automation: the steps it walks through, the pauses that   *)
(* wait for a person, and the people who approve, skip, note choices or    *)
(* send a draft while it waits (packages/core/src/services/                *)
(* automationRun.mjs).                                                     *)
(*                                                                         *)
(* A pause shows a bundle: the waiting step and the approvable steps after *)
(* it, up to the next step whose outcome could change them.  Approving     *)
(* reads the row, claims it by its status, and walks the plan again from   *)
(* the paused step with the decisions taken.  Everyone works from a copy   *)
(* of the row, read before the write that uses it.                         *)
(***************************************************************************)
EXTENDS Naturals, FiniteSets, Sequences

CONSTANTS
  Plan,        \* the kinds of the automation's steps, in order
  People,      \* those who decide: in OpenNous or on the Slack card
  Worker,      \* the process that starts the run
  NoCard,      \* no approval card was posted for the pause
  MaxAsks,     \* bound on what People start between them
  MaxCrash,    \* bound on processes that die half way
  MaxEdit      \* bound on edits of the automation while the run is on

Kinds == {"agent", "only_if", "approval", "card", "email", "crm"}

ASSUME PlanAssumption == Plan \in Seq(Kinds)
ASSUME WorkerAssumption == Worker \notin People
ASSUME BoundAssumption == MaxAsks \in Nat /\ MaxCrash \in Nat /\ MaxEdit \in Nat
ASSUME NoCardAssumption == NoCard \notin Nat

Steps == 1..Len(Plan)
Procs == People \cup {Worker}

VARIABLES
  run,       \* the row of agent_routine_runs
  edition,   \* how often the automation was edited
  pauses,    \* how often the run has paused (each pause has its nonce)
  task,      \* what each process is in the middle of, with its copy of the row
  asks, crashes,
  acts,      \* history: how often each step reached outside
  acted,     \* history: the gated steps that did, with their words
  granted,   \* history: the gated steps approved, with the words shown
  stale,     \* history: a decision claimed another pause than it had read
  refused    \* history: the run was skipped

history == <<acts, acted, granted, stale, refused>>
vars == <<run, edition, pauses, task, asks, crashes, history>>

-----------------------------------------------------------------------------
\* The plan.

IsActionStep(i) == Plan[i] \in {"email", "crm"}

\* A step after which what follows is not known before it has run.
Breaks(i) == Plan[i] \in {"agent", "only_if"}

\* An approval step, or a Slack step laid out as an approval, gates the rest.
Gated(i) == \E j \in 1..(i - 1) : Plan[j] \in {"approval", "card"}
HasCard(i) == \E j \in 1..(i - 1) : Plan[j] = "card"

\* A CRM write waits for a person wherever it stands; an email when gated.
NeedsOk(i) == Plan[i] = "crm" \/ (Plan[i] = "email" /\ Gated(i))

\* Within one review an approval step ahead gates too; a card gates only once passed.
GatedFrom(i, j) == Gated(i) \/ \E k \in i..(j - 1) : Plan[k] = "approval"

\* What a pause at step i shows, when the decisions d are already taken.
BundleFrom(i, d) ==
  {j \in i..Len(Plan) : /\ Plan[j] = "crm" \/ (Plan[j] = "email" /\ GatedFrom(i, j))
                        /\ d[j] = "unsaid"
                        /\ \A k \in i..(j - 1) : ~Breaks(k)}

\* What a request can say of each step (of a step that needs no one, nothing).
Answers == [Steps -> {"yes", "no", "unsaid"}]
Reviewed == {i \in Steps : NeedsOk(i)}
Decisions == {[i \in Steps |-> IF i \in Reviewed THEN d[i] ELSE "unsaid"] :
                d \in [Reviewed -> {"yes", "no", "unsaid"}]}
Unsaid == [i \in Steps |-> "unsaid"]
Words == [steps : 0..MaxEdit, doc : 0..Len(Plan)]
Lines == [Steps -> {"none", "draft", "sent"}]
Cards == {NoCard} \cup Steps

Row == [status : {"running", "awaiting_approval", "ok", "error", "rejected"},
        step_index : 0..Len(Plan),
        bundle : SUBSET Steps,
        resume : Words,
        slack_card : Cards,
        step_log : Lines]

-----------------------------------------------------------------------------
\* What a run's end or pause writes (runOutcome).

Ended(row, status) == [row EXCEPT !.status = status]

\* A mutant: the pause is put one step late.
PausedAfter(row, i, d, w, card) ==
  [row EXCEPT !.status = "awaiting_approval", !.step_index = i + 1,
              !.bundle = BundleFrom(i, d), !.resume = w, !.slack_card = card]

Paused(row, i, d, w, card) ==
  [row EXCEPT !.status = "awaiting_approval", !.step_index = i,
              !.bundle = BundleFrom(i, d), !.resume = w, !.slack_card = card]

\* A mutant: a decision on a step the review does not show is taken too.
AllDecisions(row, d) == d

\* Only what the reviewer was shown can be decided.
ShownDecisions(row, d) ==
  [i \in Steps |-> IF i \in row.bundle THEN d[i] ELSE "unsaid"]

\* Mutants: a card claims whatever pause the run is in; a claim forgets the status.
ClaimsAnyPause(t) == run.status = "awaiting_approval"
ClaimsAnyRun(t) == t.via = "slack" => run.step_index = t.row.step_index

\* The claim of a decision: by the status, and from a card by the step too.
Claims(t) ==
  /\ run.status = "awaiting_approval"
  /\ t.via = "slack" => run.step_index = t.row.step_index

\* The words a resumed run acts with: those the pause kept.
ResumeWords(t) == t.row.resume

\* The step log of a resumed run: a step's line from before the pause stays.
LogAfter(t) ==
  [i \in Steps |-> IF t.row.step_log[i] # "none" THEN t.row.step_log[i] ELSE t.lines[i]]

\* Everything a paused run waits on is an email (approvalAlreadyDone).
OnlyEmails(row) == row.bundle # {} /\ \A i \in row.bundle : Plan[i] = "email"

\* A draft sent in its place, and the run with it when that was all it waited for.
SentFromDraft(t) ==
  LET log == [t.row.step_log EXCEPT ![t.at] = "sent"]
  IN  IF t.row.status = "awaiting_approval" /\ OnlyEmails(t.row)
      THEN [run EXCEPT !.status = "ok", !.step_log = log, !.bundle = t.row.bundle,
                       !.resume = t.row.resume, !.slack_card = t.row.slack_card]
      ELSE [run EXCEPT !.step_log = log]

\* Choices noted on a paused run: the whole state is written back as it was read.
ChoicesKept(t) ==
  IF run.status = "awaiting_approval"
  THEN [run EXCEPT !.bundle = t.row.bundle, !.resume = t.row.resume,
                   !.slack_card = t.row.slack_card]
  ELSE run

-----------------------------------------------------------------------------
\* The processes.

NewRow == [status |-> "running", step_index |-> 0, bundle |-> {},
           resume |-> [steps |-> 0, doc |-> 0], slack_card |-> NoCard,
           step_log |-> [i \in Steps |-> "none"]]

Idle == [doing |-> "nothing", row |-> NewRow, read |-> 0, via |-> "app",
         want |-> Unsaid, at |-> 1, words |-> NewRow.resume, lines |-> NewRow.step_log]

Init ==
  /\ run = NewRow
  /\ edition = 0
  /\ pauses = 0
  /\ task = [p \in Procs |-> IF p = Worker THEN [Idle EXCEPT !.doing = "walk"] ELSE Idle]
  /\ asks = 0 /\ crashes = 0
  /\ acts = [i \in Steps |-> 0]
  /\ acted = {} /\ granted = {}
  /\ stale = FALSE /\ refused = FALSE

\* Someone begins something: the row is read, and worked on as it was read.
Begins(p, doing, v, d, i) ==
  /\ asks < MaxAsks
  /\ task[p].doing = "nothing" /\ p # Worker
  /\ task' = [task EXCEPT ![p] =
       [Idle EXCEPT !.doing = doing, !.row = run, !.read = pauses,
                    !.via = v, !.want = d, !.at = i]]
  /\ asks' = asks + 1
  /\ UNCHANGED <<run, edition, pauses, crashes, history>>

\* A decision reads the run.  A card decides only the pause it was posted for,
\* and approves everything that pause shows.
Decides(p) ==
  /\ run.status = "awaiting_approval"
  /\ \/ \E d \in Decisions : Begins(p, "approve", "app", ShownDecisions(run, d), 1)
     \/ Begins(p, "reject", "app", Unsaid, 1)
     \/ /\ run.slack_card = run.step_index
        /\ \/ Begins(p, "approve", "slack", ShownDecisions(run, [i \in Steps |-> "yes"]), 1)
           \/ Begins(p, "reject", "slack", Unsaid, 1)

Resumed(t) == [t EXCEPT !.doing = "walk", !.at = t.row.step_index, !.words = ResumeWords(t)]

\* An approval takes the run, and goes on from the step the copy waits at.
Approve(p) ==
  LET t == task[p] IN
  /\ t.doing = "approve"
  /\ IF Claims(t)
     THEN /\ run' = Ended(run, "running")
          /\ task' = [task EXCEPT ![p] = Resumed(t)]
          /\ granted' = granted \cup
               {[step |-> i, words |-> t.row.resume] : i \in {j \in t.row.bundle : t.want[j] = "yes"}}
          /\ stale' = (stale \/ (t.via = "app" /\ t.read # pauses))
     ELSE /\ task' = [task EXCEPT ![p] = Idle]
          /\ UNCHANGED <<run, granted, stale>>
  /\ UNCHANGED <<edition, pauses, asks, crashes, acts, acted, refused>>

Reject(p) ==
  LET t == task[p] IN
  /\ t.doing = "reject"
  /\ task' = [task EXCEPT ![p] = Idle]
  /\ run' = IF Claims(t) THEN Ended(run, "rejected") ELSE run
  /\ refused' = (refused \/ Claims(t))
  /\ UNCHANGED <<edition, pauses, asks, crashes, acts, acted, granted, stale>>

-----------------------------------------------------------------------------
\* A walk over the plan (runSteps).

Walks(p) == task[p].doing = "walk" /\ task[p].at <= Len(Plan)

Moves(p, t) ==
  /\ task' = [task EXCEPT ![p] = t]
  /\ UNCHANGED <<run, edition, pauses, asks, crashes, granted, stale, refused>>

Onward(t) == [t EXCEPT !.at = @ + 1]

\* A step that needs a person and has no decision ends the walk.
Pause(p) ==
  LET t == task[p] IN
  /\ Walks(p)
  /\ NeedsOk(t.at) /\ t.want[t.at] = "unsaid"
  /\ Moves(p, [t EXCEPT !.doing = "pause"])
  /\ UNCHANGED <<acts, acted>>

\* Skipped in review, or a step that only gates what follows.
Pass(p) ==
  LET t == task[p] IN
  /\ Walks(p)
  /\ \/ t.want[t.at] = "no"
     \/ Plan[t.at] \in {"approval", "card"}
  /\ Moves(p, Onward(t))
  /\ UNCHANGED <<acts, acted>>

\* An AI step writes the document the steps after it act with.
Write(p) ==
  LET t == task[p] IN
  /\ Walks(p) /\ Plan[t.at] = "agent"
  /\ Moves(p, Onward([t EXCEPT !.words.doc = t.at]))
  /\ UNCHANGED <<acts, acted>>

\* A rule lets the walk on, or ends it as done.
Judge(p) ==
  LET t == task[p] IN
  /\ Walks(p) /\ Plan[t.at] = "only_if"
  /\ \/ Moves(p, Onward(t))
     \/ Moves(p, [t EXCEPT !.doing = "done"])
  /\ UNCHANGED <<acts, acted>>

\* A step reaches outside: a CRM write, or an email drafted or (approved) sent.
Act(p) ==
  LET t == task[p]
      i == t.at IN
  /\ Walks(p) /\ IsActionStep(i)
  /\ t.want[i] = "yes" \/ (t.want[i] = "unsaid" /\ ~NeedsOk(i))
  /\ acts' = [acts EXCEPT ![i] = @ + 1]
  /\ acted' = IF NeedsOk(i) THEN acted \cup {[step |-> i, words |-> t.words]} ELSE acted
  /\ IF Plan[i] = "email"
     THEN \E l \in IF NeedsOk(i) THEN {"draft", "sent"} ELSE {"draft"} :
            Moves(p, Onward([t EXCEPT !.lines[i] = l]))
     ELSE Moves(p, Onward(t))

\* A step fails, and the run with it.
Fail(p) ==
  LET t == task[p] IN
  /\ Walks(p)
  /\ Plan[t.at] = "agent" \/ (IsActionStep(t.at) /\ (NeedsOk(t.at) => t.want[t.at] = "yes"))
  /\ Moves(p, [t EXCEPT !.doing = "fail"])
  /\ UNCHANGED <<acts, acted>>

\* The walk's outcome is written to the row, whatever the row says by now.
Save(p) ==
  LET t == task[p]
      row == [run EXCEPT !.step_log = LogAfter(t)] IN
  /\ \/ /\ t.doing = "walk" /\ t.at > Len(Plan)
        /\ run' = Ended(row, "ok") /\ UNCHANGED pauses
     \/ t.doing = "done" /\ run' = Ended(row, "ok") /\ UNCHANGED pauses
     \/ t.doing = "fail" /\ run' = Ended(row, "error") /\ UNCHANGED pauses
     \/ /\ t.doing = "pause"
        /\ \E card \in IF HasCard(t.at) THEN {NoCard, t.at} ELSE {NoCard} :
             run' = Paused(row, t.at, t.want, t.words, card)
        /\ pauses' = pauses + 1
  /\ task' = [task EXCEPT ![p] = Idle]
  /\ UNCHANGED <<edition, asks, crashes, history>>

-----------------------------------------------------------------------------
\* What else writes the row, and what else can happen.

\* Choices are noted on a paused run before its review is finished.
Notes(p) == run.status = "awaiting_approval" /\ Begins(p, "note", "app", Unsaid, 1)

Keep(p) ==
  LET t == task[p] IN
  /\ t.doing = "note"
  /\ run' = ChoicesKept(t)
  /\ task' = [task EXCEPT ![p] = Idle]
  /\ UNCHANGED <<edition, pauses, asks, crashes, history>>

\* An email the run drafted is opened, then sent from the run's page.
Opens(p) == \E i \in Steps : run.step_log[i] = "draft" /\ Begins(p, "send", "app", Unsaid, i)

Send(p) ==
  LET t == task[p] IN
  /\ t.doing = "send"
  /\ run' = SentFromDraft(t)
  /\ task' = [task EXCEPT ![p] = Idle]
  /\ UNCHANGED <<edition, pauses, asks, crashes, history>>

\* The automation's steps are edited while a run is on.
Edit ==
  /\ edition < MaxEdit
  /\ edition' = edition + 1
  /\ UNCHANGED <<run, pauses, task, asks, crashes, history>>

\* A process dies; nothing takes up what it was doing.
Crash(p) ==
  /\ crashes < MaxCrash
  /\ task[p].doing # "nothing"
  /\ task' = [task EXCEPT ![p] = Idle]
  /\ crashes' = crashes + 1
  /\ UNCHANGED <<run, edition, pauses, asks, history>>

Next ==
  \/ Edit
  \/ \E p \in Procs :
       \/ Decides(p) \/ Approve(p) \/ Reject(p)
       \/ Pause(p) \/ Pass(p) \/ Write(p) \/ Judge(p) \/ Act(p) \/ Fail(p) \/ Save(p)
       \/ Notes(p) \/ Keep(p) \/ Opens(p) \/ Send(p)
       \/ Crash(p)

Spec == Init /\ [][Next]_vars

-----------------------------------------------------------------------------
Task == [doing : {"nothing", "approve", "reject", "walk", "pause", "done", "fail", "note", "send"},
         row : Row, read : Nat, via : {"app", "slack"},
         want : Answers, at : 1..(Len(Plan) + 1), words : Words, lines : Lines]

\* The type invariant: the row holds what runOutcome can write, a pause stands
\* at a step of the plan, and a process is at a step or past the last one.
TypeOK ==
  /\ run \in Row
  /\ edition \in 0..MaxEdit
  /\ pauses \in Nat
  /\ task \in [Procs -> Task]
  /\ asks \in 0..MaxAsks /\ crashes \in 0..MaxCrash
  /\ acts \in [Steps -> Nat]
  /\ acted \subseteq [step : Steps, words : Words]
  /\ granted \subseteq [step : Steps, words : Words]
  /\ stale \in BOOLEAN /\ refused \in BOOLEAN

\* What acts was shown: a gated step reaches outside only after a person approved
\* a pause that showed that step, with those steps and that document -- whatever
\* was edited, noted, decided by someone else or decided from an old copy since.
ActsAsShown == acted \subseteq granted

\* A step reaches outside twice only when a decision from the app claimed a later
\* pause than the one it had read; a card's decision never does that by itself.
RepeatIsStale == (\E i \in Steps : acts[i] > 1) => stale

\* Once someone has skipped the run, no step of it reaches outside again, not
\* even one another reviewer was approving at the time.
SkippedNeverActs == [][refused => acts' = acts]_vars

\* "Claimed atomically, so two people pressing at once run it once."
RunsOnce == \A i \in Steps : acts[i] <= 1
=============================================================================
