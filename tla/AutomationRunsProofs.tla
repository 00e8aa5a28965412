------------------------ MODULE AutomationRunsProofs ------------------------
(***************************************************************************)
(* What holds of an automation run for every plan, every set of people and *)
(* every number of requests: its types, that what acts was shown, that a   *)
(* skipped run never acts, and that only a decision from an old copy makes *)
(* a step act twice.                                                       *)
(***************************************************************************)
EXTENDS AutomationRuns, TLAPS

Doings == {"nothing", "approve", "reject", "walk", "pause", "done", "fail", "note", "send"}

\* A process that has the run, up to the write of its outcome.
Walking(p) == task[p].doing \in {"walk", "pause", "done", "fail"}

-----------------------------------------------------------------------------
\* The plan and the records built from it.

LEMMA PlanFacts ==
  /\ Len(Plan) \in Nat
  /\ Steps \subseteq Nat
  /\ \A i \in Nat : i >= 1 /\ i <= Len(Plan) <=> i \in Steps
  /\ \A i \in Steps : Plan[i] \in Kinds
  BY PlanAssumption DEF Steps

LEMMA NewRowType == NewRow \in Row
  BY PlanFacts, BoundAssumption DEF NewRow, Row, Words, Cards, Lines

LEMMA IdleType == Idle \in Task
  BY PlanFacts, NewRowType DEF Idle, Task, Unsaid, Answers, Row, NewRow, Steps

LEMMA EndedType ==
  ASSUME NEW r \in Row, NEW s \in {"running", "ok", "error", "rejected"}
  PROVE  /\ Ended(r, s) \in Row
         /\ Ended(r, s).status = s
         /\ Ended(r, s).step_index = r.step_index
         /\ Ended(r, s).bundle = r.bundle
         /\ Ended(r, s).resume = r.resume
  BY DEF Ended, Row

LEMMA PausedType ==
  ASSUME NEW r \in Row, NEW i \in Steps, NEW d \in Answers, NEW w \in Words, NEW c \in Cards
  PROVE  /\ Paused(r, i, d, w, c) \in Row
         /\ Paused(r, i, d, w, c).status = "awaiting_approval"
         /\ Paused(r, i, d, w, c).step_index = i
         /\ Paused(r, i, d, w, c).bundle = BundleFrom(i, d)
         /\ Paused(r, i, d, w, c).resume = w
  <1>1. BundleFrom(i, d) \in SUBSET Steps
    BY PlanFacts DEF BundleFrom, Steps
  <1>2. i \in 0..Len(Plan)
    BY DEF Steps
  <1>. QED BY <1>1, <1>2 DEF Paused, Row

LEMMA LogAfterType ==
  ASSUME NEW t \in Task
  PROVE  LogAfter(t) \in Lines
  BY DEF LogAfter, Task, Row, Lines

LEMMA ChoicesKeptType ==
  ASSUME NEW t \in Task, run \in Row
  PROVE  /\ ChoicesKept(t) \in Row
         /\ ChoicesKept(t).status = run.status
         /\ ChoicesKept(t).step_index = run.step_index
         /\ ChoicesKept(t).bundle \in {run.bundle, t.row.bundle}
  BY DEF ChoicesKept, Task, Row

LEMMA SentFromDraftType ==
  ASSUME NEW t \in Task, run \in Row, t.at \in Steps
  PROVE  /\ SentFromDraft(t) \in Row
         /\ SentFromDraft(t).status \in {run.status, "ok"}
         /\ SentFromDraft(t).step_index = run.step_index
         /\ SentFromDraft(t).bundle \in {run.bundle, t.row.bundle}
  <1>1. [t.row.step_log EXCEPT ![t.at] = "sent"] \in Lines
    BY DEF Task, Row, Lines
  <1>. QED BY <1>1 DEF SentFromDraft, Task, Row

LEMMA ShownType ==
  ASSUME NEW r \in Row, NEW d \in Answers
  PROVE  /\ ShownDecisions(r, d) \in Answers
         /\ \A i \in Steps : ShownDecisions(r, d)[i] # "unsaid" => i \in r.bundle
  BY DEF ShownDecisions, Answers

LEMMA DecisionsAreAnswers == Decisions \subseteq Answers
  BY DEF Decisions, Answers, Reviewed

LEMMA SetTask ==
  ASSUME TypeOK, NEW p \in Procs, NEW t \in Task, task' = [task EXCEPT ![p] = t]
  PROVE  /\ task' \in [Procs -> Task]
         /\ task'[p] = t
         /\ \A q \in Procs \ {p} : task'[q] = task[q]
  BY DEF TypeOK

LEMMA OnwardType ==
  ASSUME NEW t \in Task, t.at \in Steps
  PROVE  /\ Onward(t) \in Task
         /\ Onward(t).at = t.at + 1
         /\ Onward(t).doing = t.doing
         /\ Onward(t).row = t.row
         /\ Onward(t).read = t.read
         /\ Onward(t).want = t.want
         /\ Onward(t).words = t.words
  BY PlanFacts DEF Onward, Task, Steps

LEMMA DoingType ==
  ASSUME NEW t \in Task, NEW d \in Doings
  PROVE  /\ [t EXCEPT !.doing = d] \in Task
         /\ [t EXCEPT !.doing = d].doing = d
         /\ [t EXCEPT !.doing = d].at = t.at
         /\ [t EXCEPT !.doing = d].row = t.row
         /\ [t EXCEPT !.doing = d].read = t.read
         /\ [t EXCEPT !.doing = d].want = t.want
         /\ [t EXCEPT !.doing = d].words = t.words
  BY DEF Doings, Task

-----------------------------------------------------------------------------
\* Types.

LEMMA TypeInit == Init => TypeOK
  <1>. SUFFICES ASSUME Init PROVE TypeOK
    OBVIOUS
  <1>1. task \in [Procs -> Task]
    BY IdleType DEF Init, Task, Idle
  <1>2. acts \in [Steps -> Nat] /\ run \in Row
    BY NewRowType DEF Init
  <1>3. edition \in 0..MaxEdit /\ asks \in 0..MaxAsks /\ crashes \in 0..MaxCrash /\ pauses \in Nat
    BY BoundAssumption DEF Init
  <1>4. acted = {} /\ granted = {} /\ stale \in BOOLEAN /\ refused \in BOOLEAN
    BY DEF Init
  <1>. QED BY <1>1, <1>2, <1>3, <1>4 DEF TypeOK

LEMMA BeginsType ==
  ASSUME TypeOK, NEW p \in Procs, NEW v \in {"app", "slack"}, NEW d \in Answers,
         NEW i \in Steps \cup {1}, NEW doing \in Doings, Begins(p, doing, v, d, i)
  PROVE  /\ TypeOK'
         /\ task'[p].doing = doing /\ task'[p].row = run /\ task'[p].read = pauses
         /\ task'[p].want = d /\ task'[p].at = i
         /\ \A q \in Procs \ {p} : task'[q] = task[q]
         /\ UNCHANGED <<run, pauses, history>>
  <1>. DEFINE t == [Idle EXCEPT !.doing = doing, !.row = run, !.read = pauses,
                                !.via = v, !.want = d, !.at = i]
  <1>1. i \in 1..(Len(Plan) + 1)
    BY PlanFacts DEF Steps
  <1>2. /\ t \in Task
        /\ t.doing = doing /\ t.row = run /\ t.read = pauses /\ t.want = d /\ t.at = i
    BY <1>1, IdleType DEF TypeOK, Task, Doings, Idle
  <1>3. task' = [task EXCEPT ![p] = t]
    BY DEF Begins
  <1>4. asks' \in 0..MaxAsks
    BY BoundAssumption DEF Begins, TypeOK
  <1>5. UNCHANGED <<run, edition, pauses, crashes, history>>
    BY DEF Begins
  <1>. HIDE DEF t
  <1>6. /\ task' \in [Procs -> Task] /\ task'[p] = t
        /\ \A q \in Procs \ {p} : task'[q] = task[q]
    BY <1>2, <1>3, SetTask
  <1>7. TypeOK'
    BY <1>4, <1>5, <1>6 DEF TypeOK, history
  <1>. QED BY <1>2, <1>5, <1>6, <1>7

\* A decision begins with the row it read, and decides nothing the row does not show.
LEMMA DecidesStep ==
  ASSUME TypeOK, NEW p \in Procs, Decides(p)
  PROVE  /\ TypeOK'
         /\ task'[p].doing \in {"approve", "reject"}
         /\ task'[p].row = run /\ task'[p].read = pauses
         /\ run.status = "awaiting_approval"
         /\ \A i \in Steps : task'[p].want[i] # "unsaid" => i \in run.bundle
         /\ \A q \in Procs \ {p} : task'[q] = task[q]
         /\ UNCHANGED <<run, pauses, history>>
  <1>1. Unsaid \in Answers /\ \A i \in Steps : Unsaid[i] = "unsaid"
    BY DEF Unsaid, Answers
  <1>2. [i \in Steps |-> "yes"] \in Answers
    BY DEF Answers
  <1>3. run \in Row
    BY DEF TypeOK
  <1>4. PICK doing \in {"approve", "reject"}, v \in {"app", "slack"}, d \in Answers :
          /\ Begins(p, doing, v, d, 1)
          /\ \A i \in Steps : d[i] # "unsaid" => i \in run.bundle
    <2>1. CASE \E d \in Decisions : Begins(p, "approve", "app", ShownDecisions(run, d), 1)
      BY <1>3, <2>1, ShownType, DecisionsAreAnswers
    <2>2. CASE Begins(p, "reject", "app", Unsaid, 1) \/ Begins(p, "reject", "slack", Unsaid, 1)
      BY <1>1, <2>2
    <2>3. CASE Begins(p, "approve", "slack", ShownDecisions(run, [i \in Steps |-> "yes"]), 1)
      BY <1>2, <1>3, <2>3, ShownType
    <2>. QED BY <2>1, <2>2, <2>3 DEF Decides
  <1>5. doing \in Doings
    BY DEF Doings
  <1>6. run.status = "awaiting_approval"
    BY DEF Decides
  <1>. QED BY <1>4, <1>5, <1>6, BeginsType

LEMMA NotesStep ==
  ASSUME TypeOK, NEW p \in Procs, Notes(p)
  PROVE  /\ TypeOK'
         /\ task'[p].doing = "note" /\ task'[p].row = run /\ task'[p].read = pauses
         /\ \A q \in Procs \ {p} : task'[q] = task[q]
         /\ UNCHANGED <<run, pauses, history>>
  <1>1. Unsaid \in Answers /\ "note" \in Doings
    BY DEF Unsaid, Answers, Doings
  <1>. QED BY <1>1, BeginsType DEF Notes

LEMMA OpensStep ==
  ASSUME TypeOK, NEW p \in Procs, Opens(p)
  PROVE  /\ TypeOK'
         /\ task'[p].doing = "send" /\ task'[p].row = run /\ task'[p].read = pauses
         /\ task'[p].at \in Steps
         /\ \A q \in Procs \ {p} : task'[q] = task[q]
         /\ UNCHANGED <<run, pauses, history>>
  <1>1. Unsaid \in Answers /\ "send" \in Doings
    BY DEF Unsaid, Answers, Doings
  <1>2. PICK i \in Steps : Begins(p, "send", "app", Unsaid, i)
    BY DEF Opens
  <1>. QED BY <1>1, <1>2, BeginsType

\* What a move of a walk leaves alone, and what it may become.
LEMMA MovesStep ==
  ASSUME TypeOK, NEW p \in Procs, NEW t \in Task, Moves(p, t)
  PROVE  /\ task' \in [Procs -> Task]
         /\ task'[p] = t
         /\ \A q \in Procs \ {p} : task'[q] = task[q]
         /\ UNCHANGED <<run, edition, pauses, asks, crashes, granted, stale, refused>>
  BY SetTask DEF Moves

LEMMA WalksAt ==
  ASSUME TypeOK, NEW p \in Procs, Walks(p)
  PROVE  task[p] \in Task /\ task[p].doing = "walk" /\ task[p].at \in Steps
  <1>1. task[p] \in Task
    BY DEF TypeOK
  <1>2. task[p].at \in 1..(Len(Plan) + 1)
    BY <1>1 DEF Task
  <1>. QED BY <1>1, <1>2, PlanFacts DEF Walks, Steps

\* What a walk's own steps (all but its save) do.
WalkStep(p) ==
  \/ Pause(p) \/ Pass(p) \/ Write(p) \/ Judge(p) \/ Act(p) \/ Fail(p)

\* The task after a step of a walk: it stops, or it is one step further, with
\* the same decisions, and with the same words unless an AI step wrote.
LEMMA WalkStepTask ==
  ASSUME TypeOK, NEW p \in Procs, WalkStep(p)
  PROVE  /\ task' \in [Procs -> Task]
         /\ \A q \in Procs \ {p} : task'[q] = task[q]
         /\ UNCHANGED <<run, edition, pauses, asks, crashes, granted, stale, refused>>
         /\ task[p].doing = "walk" /\ task[p].at \in Steps
         /\ task'[p].row = task[p].row /\ task'[p].read = task[p].read
         /\ task'[p].want = task[p].want
         /\ \/ /\ task'[p].doing \in {"pause", "done", "fail"}
               /\ task'[p].doing = "pause" => NeedsOk(task[p].at)
               /\ task'[p].at = task[p].at /\ task'[p].words = task[p].words
               /\ UNCHANGED <<acts, acted>>
            \/ /\ task'[p].doing = "walk" /\ task'[p].at = task[p].at + 1
               /\ \/ task'[p].words = task[p].words
                  \/ Plan[task[p].at] = "agent"
               /\ task[p].want[task[p].at] # "unsaid" \/ ~NeedsOk(task[p].at)
  <1>. DEFINE t == task[p]
  <1>1. t \in Task /\ t.doing = "walk" /\ t.at \in Steps
    BY WalksAt DEF WalkStep, Pause, Pass, Write, Judge, Act, Fail
  <1>. DEFINE Stop(d) == [t EXCEPT !.doing = d]
  <1>2. \A d \in {"pause", "done", "fail"} : Moves(p, Stop(d)) =>
          /\ task' \in [Procs -> Task]
          /\ \A q \in Procs \ {p} : task'[q] = task[q]
          /\ UNCHANGED <<run, edition, pauses, asks, crashes, granted, stale, refused>>
          /\ task'[p].row = t.row /\ task'[p].read = t.read /\ task'[p].want = t.want
          /\ task'[p].doing = d
          /\ task'[p].at = t.at /\ task'[p].words = t.words
    <2>. TAKE d \in {"pause", "done", "fail"}
    <2>. HAVE Moves(p, Stop(d))
    <2>1. d \in Doings
      BY DEF Doings
    <2>2. /\ Stop(d) \in Task /\ Stop(d).doing = d /\ Stop(d).at = t.at /\ Stop(d).row = t.row
          /\ Stop(d).read = t.read /\ Stop(d).want = t.want /\ Stop(d).words = t.words
      BY <1>1, <2>1, DoingType
    <2>. HIDE DEF Stop, t
    <2>. QED BY <2>2, MovesStep
  <1>3. ASSUME NEW u \in Task, u.at = t.at, u.doing = t.doing, u.row = t.row, u.read = t.read,
               u.want = t.want, Moves(p, Onward(u))
        PROVE  /\ task' \in [Procs -> Task]
               /\ \A q \in Procs \ {p} : task'[q] = task[q]
               /\ UNCHANGED <<run, edition, pauses, asks, crashes, granted, stale, refused>>
               /\ task'[p].row = t.row /\ task'[p].read = t.read /\ task'[p].want = t.want
               /\ task'[p].doing = "walk"
               /\ task'[p].at = t.at + 1 /\ task'[p].words = u.words
    BY <1>1, <1>3, OnwardType, MovesStep
  <1>. HIDE DEF t
  <1>4. CASE Pause(p)
    BY <1>1, <1>2, <1>4 DEF Pause, t
  <1>5. CASE Pass(p)
    <2>1. t.want[t.at] # "unsaid" \/ ~NeedsOk(t.at)
      BY <1>5 DEF Pass, t, NeedsOk
    <2>. QED BY <1>1, <1>3, <1>5, <2>1 DEF Pass, t
  <1>6. CASE Write(p)
    <2>. DEFINE u == [t EXCEPT !.words.doc = t.at]
    <2>1. /\ u \in Task /\ u.at = t.at /\ u.doing = t.doing
          /\ u.row = t.row /\ u.read = t.read /\ u.want = t.want
      BY <1>1, PlanFacts DEF Task, Words, Steps
    <2>2. Plan[t.at] = "agent" /\ Moves(p, Onward(u))
      BY <1>6 DEF Write, t
    <2>. HIDE DEF u
    <2>3. ~NeedsOk(t.at)
      BY <2>2 DEF NeedsOk
    <2>. QED BY <1>1, <1>3, <2>1, <2>2, <2>3 DEF t
  <1>7. CASE Judge(p)
    <2>1. ~NeedsOk(t.at)
      BY <1>7 DEF Judge, t, NeedsOk
    <2>2. CASE Moves(p, Onward(t))
      BY <1>1, <1>3, <2>1, <2>2 DEF t
    <2>3. CASE Moves(p, Stop("done"))
      BY <1>1, <1>2, <1>7, <2>3 DEF Judge, t
    <2>. QED BY <1>7, <2>2, <2>3 DEF Judge, t
  <1>8. CASE Act(p)
    <2>1. t.want[t.at] # "unsaid" \/ ~NeedsOk(t.at)
      BY <1>8 DEF Act, t
    <2>2. CASE Moves(p, Onward(t))
      BY <1>1, <1>3, <2>1, <2>2 DEF t
    <2>3. ASSUME NEW l \in {"draft", "sent"}, Moves(p, Onward([t EXCEPT !.lines[t.at] = l]))
          PROVE  /\ task' \in [Procs -> Task]
                 /\ \A q \in Procs \ {p} : task'[q] = task[q]
                 /\ UNCHANGED <<run, edition, pauses, asks, crashes, granted, stale, refused>>
                 /\ task'[p].row = t.row /\ task'[p].read = t.read /\ task'[p].want = t.want
                 /\ task'[p].doing = "walk"
                 /\ task'[p].at = t.at + 1 /\ task'[p].words = t.words
      <3>. DEFINE u == [t EXCEPT !.lines[t.at] = l]
      <3>1. /\ u \in Task /\ u.at = t.at /\ u.doing = t.doing /\ u.words = t.words
            /\ u.row = t.row /\ u.read = t.read /\ u.want = t.want
        BY <1>1 DEF Task, Lines
      <3>2. Moves(p, Onward(u))
        BY <2>3
      <3>. HIDE DEF u
      <3>. QED BY <1>3, <3>1, <3>2
    <2>4. \/ Moves(p, Onward(t))
          \/ \E l \in {"draft", "sent"} : Moves(p, Onward([t EXCEPT !.lines[t.at] = l]))
      BY <1>8 DEF Act, t
    <2>. QED BY <1>1, <2>1, <2>2, <2>3, <2>4 DEF t
  <1>9. CASE Fail(p)
    BY <1>1, <1>2, <1>9 DEF Fail, t
  <1>. QED BY <1>4, <1>5, <1>6, <1>7, <1>8, <1>9 DEF WalkStep

LEMMA ClaimingStep ==
  ASSUME TypeOK, NEW p \in Procs, Approve(p), Claims(task[p]), task[p].row.step_index \in Steps
  PROVE  /\ TypeOK'
         /\ run' = Ended(run, "running")
         /\ task'[p].doing = "walk" /\ task'[p].at = task[p].row.step_index
         /\ task'[p].want = task[p].want /\ task'[p].words = task[p].row.resume
         /\ task'[p].row = task[p].row /\ task'[p].read = task[p].read
         /\ \A q \in Procs \ {p} : task'[q] = task[q]
         /\ granted' = granted \cup
              {[step |-> i, words |-> task[p].row.resume] :
                 i \in {j \in task[p].row.bundle : task[p].want[j] = "yes"}}
         /\ stale' = (stale \/ (task[p].via = "app" /\ task[p].read # pauses))
         /\ UNCHANGED <<edition, pauses, asks, crashes, acts, acted, refused>>
  <1>. DEFINE t == task[p]
  <1>1. t \in Task
    BY DEF TypeOK
  <1>2. /\ Resumed(t) \in Task
        /\ Resumed(t).doing = "walk" /\ Resumed(t).at = t.row.step_index
        /\ Resumed(t).want = t.want /\ Resumed(t).words = t.row.resume
        /\ Resumed(t).row = t.row /\ Resumed(t).read = t.read
    <2>1. t.row.step_index \in 1..(Len(Plan) + 1)
      BY PlanFacts DEF Steps
    <2>2. t.row.resume \in Words
      BY <1>1 DEF Task, Row
    <2>. HIDE DEF t
    <2>. QED BY <1>1, <2>1, <2>2 DEF Resumed, ResumeWords, Task
  <1>3. task' = [task EXCEPT ![p] = Resumed(t)]
    BY DEF Approve
  <1>4. /\ task' \in [Procs -> Task] /\ task'[p] = Resumed(t)
        /\ \A q \in Procs \ {p} : task'[q] = task[q]
    BY <1>2, <1>3, SetTask
  <1>5. /\ run' = Ended(run, "running")
        /\ granted' = granted \cup
              {[step |-> i, words |-> t.row.resume] : i \in {j \in t.row.bundle : t.want[j] = "yes"}}
        /\ stale' = (stale \/ (t.via = "app" /\ t.read # pauses))
        /\ UNCHANGED <<edition, pauses, asks, crashes, acts, acted, refused>>
    BY DEF Approve
  <1>6. t.row.bundle \subseteq Steps /\ t.row.resume \in Words
    BY <1>1 DEF Task, Row
  <1>. HIDE DEF t
  <1>7. granted' \subseteq [step : Steps, words : Words]
    BY <1>5, <1>6 DEF TypeOK
  <1>8. run' \in Row
    BY <1>5, EndedType DEF TypeOK
  <1>9. TypeOK'
    BY <1>4, <1>5, <1>7, <1>8 DEF TypeOK
  <1>. QED BY <1>2, <1>4, <1>5, <1>9 DEF t

\* A process that is done puts down what it held.
LEMMA RestStep ==
  ASSUME TypeOK, NEW p \in Procs, task' = [task EXCEPT ![p] = Idle]
  PROVE  /\ task' \in [Procs -> Task]
         /\ task'[p] = Idle /\ Idle.doing = "nothing" /\ Idle.row = NewRow
         /\ \A q \in Procs \ {p} : task'[q] = task[q]
  BY SetTask, IdleType DEF Idle

\* What the write of a walk's outcome does.
LEMMA SaveStep ==
  ASSUME TypeOK, NEW p \in Procs, Save(p), task[p].doing = "pause" => task[p].at \in Steps
  PROVE  /\ TypeOK'
         /\ Walking(p)
         /\ task' = [task EXCEPT ![p] = Idle]
         /\ \/ /\ run'.status \in {"ok", "error"} /\ run'.bundle = run.bundle
               /\ run'.step_index = run.step_index
               /\ UNCHANGED pauses
            \/ /\ task[p].doing = "pause"
               /\ run'.status = "awaiting_approval" /\ run'.step_index = task[p].at
               /\ run'.bundle = BundleFrom(task[p].at, task[p].want)
               /\ pauses' = pauses + 1
         /\ UNCHANGED history
  <1>. DEFINE t == task[p]  row == [run EXCEPT !.step_log = LogAfter(t)]
  <1>1. t \in Task
    BY DEF TypeOK
  <1>2. /\ row \in Row /\ row.bundle = run.bundle /\ row.step_index = run.step_index
    <2>1. LogAfter(t) \in Lines
      BY <1>1, LogAfterType
    <2>2. run \in Row
      BY DEF TypeOK
    <2>. QED BY <2>1, <2>2 DEF Row
  <1>3. /\ task' = [task EXCEPT ![p] = Idle]
        /\ UNCHANGED <<edition, asks, crashes, history>>
        /\ \/ t.doing \in {"walk", "done"} /\ run' = Ended(row, "ok") /\ UNCHANGED pauses
           \/ t.doing = "fail" /\ run' = Ended(row, "error") /\ UNCHANGED pauses
           \/ /\ t.doing = "pause" /\ pauses' = pauses + 1
              /\ \E card \in IF HasCard(t.at) THEN {NoCard, t.at} ELSE {NoCard} :
                   run' = Paused(row, t.at, t.want, t.words, card)
    BY DEF Save
  <1>4. t.want \in Answers /\ t.words \in Words
    BY <1>1 DEF Task
  <1>5. t.doing = "pause" => t.at \in Steps
    OBVIOUS
  <1>. HIDE DEF t, row
  <1>6. /\ run' \in Row
        /\ \/ /\ run'.status \in {"ok", "error"} /\ run'.bundle = run.bundle
              /\ run'.step_index = run.step_index
              /\ UNCHANGED pauses
           \/ /\ t.doing = "pause"
              /\ run'.status = "awaiting_approval" /\ run'.step_index = t.at
              /\ run'.bundle = BundleFrom(t.at, t.want)
              /\ pauses' = pauses + 1
    <2>1. CASE t.doing = "pause" /\ pauses' = pauses + 1
      <3>1. PICK card \in Cards : run' = Paused(row, t.at, t.want, t.words, card)
        BY <1>3, <1>5, <2>1 DEF Cards
      <3>. QED BY <1>2, <1>4, <1>5, <2>1, <3>1, PausedType
    <2>2. CASE run' = Ended(row, "ok") /\ UNCHANGED pauses
      BY <1>2, <2>2, EndedType
    <2>3. CASE run' = Ended(row, "error") /\ UNCHANGED pauses
      BY <1>2, <2>3, EndedType
    <2>. QED BY <1>3, <2>1, <2>2, <2>3
  <1>7. TypeOK'
    <2>1. task' \in [Procs -> Task]
      BY <1>3, RestStep
    <2>2. pauses' \in Nat
      BY <1>3 DEF TypeOK
    <2>3. UNCHANGED <<edition, asks, crashes, acts, acted, granted, stale, refused>>
      BY <1>3 DEF history
    <2>. QED BY <1>6, <2>1, <2>2, <2>3 DEF TypeOK
  <1>. QED BY <1>3, <1>6, <1>7 DEF t, Walking

\* The rest of the steps that give a process up.
LEMMA RejectStep ==
  ASSUME TypeOK, NEW p \in Procs, Reject(p)
  PROVE  /\ TypeOK' /\ task' = [task EXCEPT ![p] = Idle]
         /\ \/ /\ run.status = "awaiting_approval" /\ run'.status = "rejected"
               /\ run'.bundle = run.bundle /\ run'.step_index = run.step_index
            \/ UNCHANGED <<run, refused>>
         /\ UNCHANGED <<pauses, acts, acted, granted, stale>>
  <1>1. run' \in Row /\ (Claims(task[p]) => /\ run'.status = "rejected" /\ run'.bundle = run.bundle
                                            /\ run'.step_index = run.step_index)
    BY EndedType DEF Reject, TypeOK
  <1>2. task' = [task EXCEPT ![p] = Idle]
    BY DEF Reject
  <1>3. UNCHANGED <<edition, pauses, asks, crashes, acts, acted, granted, stale>> /\ refused' \in BOOLEAN
    BY DEF Reject, TypeOK, Claims
  <1>4. TypeOK'
    <2>1. task' \in [Procs -> Task]
      BY <1>2, RestStep
    <2>2. /\ edition' \in 0..MaxEdit /\ pauses' \in Nat /\ asks' \in 0..MaxAsks
          /\ crashes' \in 0..MaxCrash /\ acts' \in [Steps -> Nat]
      BY <1>3 DEF TypeOK
    <2>3. acted' = acted /\ granted' = granted /\ stale' = stale
      BY <1>3
    <2>. QED BY <1>1, <1>3, <2>1, <2>2, <2>3 DEF TypeOK
  <1>5. \/ run.status = "awaiting_approval" /\ Claims(task[p])
        \/ UNCHANGED <<run, refused>>
    BY DEF Reject, TypeOK, Claims
  <1>. QED BY <1>1, <1>2, <1>3, <1>4, <1>5

LEMMA KeepStep ==
  ASSUME TypeOK, NEW p \in Procs, Keep(p)
  PROVE  /\ TypeOK' /\ task' = [task EXCEPT ![p] = Idle]
         /\ run'.status = run.status /\ run'.step_index = run.step_index
         /\ run'.bundle \in {run.bundle, task[p].row.bundle}
         /\ UNCHANGED <<pauses, history>>
  <1>1. task[p] \in Task /\ run \in Row
    BY DEF TypeOK
  <1>2. /\ run' = ChoicesKept(task[p]) /\ task' = [task EXCEPT ![p] = Idle]
        /\ UNCHANGED <<edition, pauses, asks, crashes, history>>
    BY DEF Keep
  <1>3. TypeOK'
    BY <1>1, <1>2, ChoicesKeptType, RestStep DEF TypeOK, history
  <1>. QED BY <1>1, <1>2, <1>3, ChoicesKeptType

LEMMA SendStep ==
  ASSUME TypeOK, NEW p \in Procs, Send(p), task[p].at \in Steps
  PROVE  /\ TypeOK' /\ task' = [task EXCEPT ![p] = Idle]
         /\ run'.status \in {run.status, "ok"} /\ run'.step_index = run.step_index
         /\ run'.bundle \in {run.bundle, task[p].row.bundle}
         /\ UNCHANGED <<pauses, history>>
  <1>1. task[p] \in Task /\ run \in Row
    BY DEF TypeOK
  <1>2. /\ run' = SentFromDraft(task[p]) /\ task' = [task EXCEPT ![p] = Idle]
        /\ UNCHANGED <<edition, pauses, asks, crashes, history>>
    BY DEF Send
  <1>3. TypeOK'
    BY <1>1, <1>2, SentFromDraftType, RestStep DEF TypeOK, history
  <1>. QED BY <1>1, <1>2, <1>3, SentFromDraftType

LEMMA CrashStep ==
  ASSUME TypeOK, NEW p \in Procs, Crash(p)
  PROVE  /\ TypeOK' /\ task' = [task EXCEPT ![p] = Idle]
         /\ UNCHANGED <<run, pauses, history>>
  <1>1. /\ task' = [task EXCEPT ![p] = Idle] /\ crashes' \in 0..MaxCrash
        /\ UNCHANGED <<run, edition, pauses, asks, history>>
    BY BoundAssumption DEF Crash, TypeOK
  <1>. QED BY <1>1, RestStep DEF TypeOK, history

LEMMA EditStep ==
  ASSUME TypeOK, Edit
  PROVE  TypeOK' /\ UNCHANGED <<run, pauses, task, history>>
  BY BoundAssumption DEF Edit, TypeOK, history

\* An act adds to the history; no other step of a walk does.
LEMMA WalkStepType ==
  ASSUME TypeOK, NEW p \in Procs, WalkStep(p)
  PROVE  /\ TypeOK'
         /\ \/ UNCHANGED <<acts, acted>>
            \/ /\ Act(p)
               /\ acts' = [acts EXCEPT ![task[p].at] = @ + 1]
               /\ acted' \subseteq acted \cup {[step |-> task[p].at, words |-> task[p].words]}
               /\ task[p].want[task[p].at] # "yes" => acted' = acted
  <1>1. task[p] \in Task /\ task[p].at \in Steps
    BY WalkStepTask DEF TypeOK
  <1>2. CASE UNCHANGED <<acts, acted>>
    BY <1>2, WalkStepTask DEF TypeOK
  <1>3. CASE Act(p)
    <2>1. /\ acts' = [acts EXCEPT ![task[p].at] = @ + 1]
          /\ acted' = IF NeedsOk(task[p].at)
                      THEN acted \cup {[step |-> task[p].at, words |-> task[p].words]} ELSE acted
          /\ task[p].want[task[p].at] # "yes" => ~NeedsOk(task[p].at)
      BY <1>3 DEF Act
    <2>2. acts' \in [Steps -> Nat]
      BY <1>1, <2>1 DEF TypeOK
    <2>3. task[p].words \in Words
      BY <1>1 DEF Task
    <2>4. acted' \subseteq [step : Steps, words : Words]
      BY <1>1, <2>1, <2>3 DEF TypeOK
    <2>. QED BY <1>3, <2>1, <2>2, <2>4, WalkStepTask DEF TypeOK
  <1>. QED BY <1>2, <1>3 DEF WalkStep, Pause, Pass, Write, Judge, Fail

-----------------------------------------------------------------------------
\* The steps of the specification, as the invariants need them.

\* What a pause shows needs a person, and no AI step or rule stands between its steps.
Together(S) ==
  /\ \A i \in S : NeedsOk(i)
  /\ \A i, j \in S : \A k \in i..(j - 1) : ~Breaks(k)

Sound(row) ==
  /\ Together(row.bundle)
  /\ row.status = "awaiting_approval" => row.step_index \in Steps /\ NeedsOk(row.step_index)

TaskSound(t) ==
  /\ Sound(t.row)
  /\ t.doing \in {"approve", "reject"} =>
       /\ t.row.status = "awaiting_approval"
       /\ \A i \in Steps : t.want[i] # "unsaid" => i \in t.row.bundle
  /\ t.doing = "send" => t.at \in Steps
  /\ t.doing = "pause" => t.at \in Steps /\ NeedsOk(t.at)

Base == TypeOK /\ Sound(run) /\ \A p \in Procs : TaskSound(task[p])

\* A process that rests holds nothing.
Rests(p) == task' = [task EXCEPT ![p] = Idle]

\* A process reads the row to work on it.
Reads(p) ==
  /\ task'[p].doing \in {"approve", "reject", "note", "send"}
  /\ task'[p].row = run /\ task'[p].read = pauses
  /\ task'[p].doing \in {"approve", "reject"} =>
       /\ run.status = "awaiting_approval"
       /\ \A i \in Steps : task'[p].want[i] # "unsaid" => i \in run.bundle
  /\ task'[p].doing = "send" => task'[p].at \in Steps
  /\ \A q \in Procs \ {p} : task'[q] = task[q]
  /\ UNCHANGED <<run, pauses, history>>

\* Process p takes the run.
Takes(p) ==
  /\ task[p].doing = "approve" /\ Claims(task[p])
  /\ run'.status = "running" /\ run'.bundle = run.bundle /\ run'.step_index = run.step_index
  /\ task'[p].doing = "walk" /\ task'[p].at = task[p].row.step_index
  /\ task'[p].want = task[p].want /\ task'[p].words = task[p].row.resume
  /\ task'[p].row = task[p].row /\ task'[p].read = task[p].read
  /\ \A q \in Procs \ {p} : task'[q] = task[q]
  /\ granted' = granted \cup
       {[step |-> i, words |-> task[p].row.resume] :
          i \in {j \in task[p].row.bundle : task[p].want[j] = "yes"}}
  /\ stale' = (stale \/ (task[p].via = "app" /\ task[p].read # pauses))
  /\ UNCHANGED <<pauses, acts, acted, refused>>

\* The run is skipped.
Skips(p) ==
  /\ Rests(p)
  /\ run.status = "awaiting_approval" /\ run'.status = "rejected"
  /\ run'.bundle = run.bundle /\ run'.step_index = run.step_index
  /\ UNCHANGED <<pauses, acts, acted, granted, stale>>

\* The outcome of a walk is written.
Saves(p) ==
  /\ Rests(p) /\ Walking(p)
  /\ \/ /\ run'.status \in {"ok", "error"} /\ run'.bundle = run.bundle
        /\ run'.step_index = run.step_index
        /\ UNCHANGED pauses
     \/ /\ task[p].doing = "pause"
        /\ run'.status = "awaiting_approval" /\ run'.step_index = task[p].at
        /\ run'.bundle = BundleFrom(task[p].at, task[p].want)
        /\ pauses' = pauses + 1
  /\ UNCHANGED history

\* The row is touched by one that has not taken the run, or a process just stops.
Touches(p) ==
  /\ Rests(p)
  /\ run'.status \in {run.status, "ok"} /\ run'.step_index = run.step_index
  /\ run'.bundle \in {run.bundle, task[p].row.bundle}
  /\ UNCHANGED <<pauses, history>>

Stutters == UNCHANGED <<run, pauses, task, history>>

\* Every step keeps the types and is one of these.
LEMMA StepKinds ==
  ASSUME Base, [Next]_vars
  PROVE  /\ TypeOK'
         /\ \/ Stutters
            \/ \E p \in Procs :
                 Reads(p) \/ Takes(p) \/ Skips(p) \/ WalkStep(p) \/ Saves(p) \/ Touches(p)
  <1>. USE DEF Base, TaskSound
  <1>1. CASE UNCHANGED vars
    BY <1>1 DEF vars, history, TypeOK, Stutters
  <1>2. CASE Edit
    BY <1>2, EditStep DEF Stutters
  <1>3. ASSUME NEW p \in Procs, Decides(p) \/ Notes(p) \/ Opens(p)
        PROVE  TypeOK' /\ Reads(p)
    BY <1>3, DecidesStep, NotesStep, OpensStep DEF Reads
  <1>4. ASSUME NEW p \in Procs, Approve(p)
        PROVE  TypeOK' /\ (Takes(p) \/ Touches(p))
    <2>1. CASE Claims(task[p])
      <3>1. task[p].doing = "approve" /\ task[p].row.step_index \in Steps
        BY <1>4 DEF Approve, Sound
      <3>2. run \in Row
        BY DEF TypeOK
      <3>. QED BY <1>4, <2>1, <3>1, <3>2, ClaimingStep, EndedType DEF Takes
    <2>2. CASE ~Claims(task[p])
      <3>1. /\ task' = [task EXCEPT ![p] = Idle]
            /\ UNCHANGED <<run, edition, pauses, asks, crashes, history>>
        BY <1>4, <2>2 DEF Approve, history
      <3>2. TypeOK'
        BY <3>1, RestStep DEF TypeOK, history
      <3>. QED BY <3>1, <3>2 DEF Touches, Rests
    <2>. QED BY <2>1, <2>2
  <1>5. ASSUME NEW p \in Procs, Reject(p)
        PROVE  TypeOK' /\ (Skips(p) \/ Touches(p))
    BY <1>5, RejectStep DEF Skips, Touches, Rests, history
  <1>6. ASSUME NEW p \in Procs, Pause(p) \/ Pass(p) \/ Write(p) \/ Judge(p) \/ Act(p) \/ Fail(p)
        PROVE  TypeOK' /\ WalkStep(p)
    BY <1>6, WalkStepType DEF WalkStep
  <1>7. ASSUME NEW p \in Procs, Save(p)
        PROVE  TypeOK' /\ Saves(p)
    BY <1>7, SaveStep DEF Saves, Rests
  <1>8. ASSUME NEW p \in Procs, Keep(p)
        PROVE  TypeOK' /\ Touches(p)
    BY <1>8, KeepStep DEF Touches, Rests
  <1>9. ASSUME NEW p \in Procs, Send(p)
        PROVE  TypeOK' /\ Touches(p)
    BY <1>9, SendStep DEF Touches, Rests, Send
  <1>10. ASSUME NEW p \in Procs, Crash(p)
         PROVE  TypeOK' /\ Touches(p)
    BY <1>10, CrashStep DEF Touches, Rests
  <1>. QED
    BY <1>1, <1>2, <1>3, <1>4, <1>5, <1>6, <1>7, <1>8, <1>9, <1>10 DEF Next

-----------------------------------------------------------------------------
\* The rows and their copies.

LEMMA BundleTogether ==
  ASSUME NEW i \in Steps, NEW d \in Answers
  PROVE  Together(BundleFrom(i, d))
  <1>. DEFINE B == BundleFrom(i, d)
  <1>1. \A j \in B : /\ j \in Nat /\ i \in Nat /\ j >= i /\ NeedsOk(j)
                     /\ \A k \in i..(j - 1) : ~Breaks(k)
    <2>1. SUFFICES ASSUME NEW j \in B
                   PROVE  /\ j \in Nat /\ i \in Nat /\ j >= i /\ NeedsOk(j)
                          /\ \A k \in i..(j - 1) : ~Breaks(k)
      OBVIOUS
    <2>2. /\ j \in Nat /\ i \in Nat /\ 1 <= i /\ i <= j
          /\ Plan[j] = "crm" \/ (Plan[j] = "email" /\ GatedFrom(i, j))
          /\ \A k \in i..(j - 1) : ~Breaks(k)
      BY PlanFacts DEF BundleFrom, Steps
    <2>3. GatedFrom(i, j) => Gated(j)
      <3>1. i - 1 <= j - 1 /\ \A k \in i..(j - 1) : k \in 1..(j - 1)
        BY <2>2
      <3>2. Gated(i) => Gated(j)
        BY <2>2 DEF Gated
      <3>. QED BY <3>1, <3>2 DEF GatedFrom, Gated
    <2>. QED BY <2>2, <2>3 DEF NeedsOk
  <1>2. \A m, j \in B : \A k \in m..(j - 1) : ~Breaks(k)
    <2>. HIDE DEF B
    <2>. TAKE m, j \in B
    <2>. TAKE k \in m..(j - 1)
    <2>1. m \in Nat /\ j \in Nat /\ i \in Nat /\ m >= i
      BY <1>1
    <2>2. k \in i..(j - 1)
      BY <2>1
    <2>. QED BY <1>1, <2>2
  <1>. QED BY <1>1, <1>2 DEF Together

LEMMA IdleSound == TaskSound(Idle) /\ Sound(NewRow)
  BY DEF TaskSound, Sound, Together, Idle, NewRow

LEMMA BaseInit == Init => Base
  <1>. SUFFICES ASSUME Init PROVE Base
    OBVIOUS
  <1>1. TypeOK /\ run = NewRow
    BY TypeInit DEF Init
  <1>2. \A p \in Procs : task[p].row = NewRow /\ task[p].doing \in {"walk", "nothing"}
    BY DEF Init, Idle
  <1>. QED BY <1>1, <1>2, IdleSound DEF Base, TaskSound

LEMMA BaseStep == Base /\ [Next]_vars => Base'
  <1>. SUFFICES ASSUME Base, [Next]_vars PROVE Base'
    OBVIOUS
  <1>0. TypeOK'
    BY StepKinds
  <1>1. CASE Stutters
    BY <1>0, <1>1 DEF Stutters, Base, Sound, TaskSound
  <1>. SUFFICES ASSUME NEW p \in Procs,
                       Reads(p) \/ Takes(p) \/ Skips(p) \/ WalkStep(p) \/ Saves(p) \/ Touches(p)
                PROVE  Sound(run') /\ \A q \in Procs : TaskSound(task'[q])
    BY <1>0, <1>1, StepKinds DEF Base, Sound, TaskSound
  <1>2. /\ TypeOK /\ task[p] \in Task /\ Sound(run) /\ TaskSound(task[p]) /\ Sound(task[p].row)
        /\ \A q \in Procs : TaskSound(task[q])
    BY DEF Base, TypeOK, TaskSound
  <1>3. ASSUME Rests(p)
        PROVE  \A q \in Procs : TaskSound(task'[q])
    BY <1>2, <1>3, RestStep, IdleSound DEF Rests
  <1>4. CASE Reads(p)
    <2>1. run' = run /\ Sound(run')
      BY <1>2, <1>4 DEF Reads
    <2>2. TaskSound(task'[p])
      BY <1>2, <1>4 DEF Reads, TaskSound
    <2>. QED BY <1>2, <1>4, <2>1, <2>2 DEF Reads
  <1>5. CASE Takes(p)
    <2>1. Sound(run')
      BY <1>2, <1>5 DEF Takes, Sound
    <2>2. TaskSound(task'[p])
      BY <1>2, <1>5 DEF Takes, TaskSound
    <2>. QED BY <1>2, <1>5, <2>1, <2>2 DEF Takes
  <1>6. CASE Skips(p)
    BY <1>2, <1>3, <1>6 DEF Skips, Sound
  <1>7. CASE WalkStep(p)
    <2>1. run' = run /\ Sound(run')
      BY <1>2, <1>7, WalkStepTask
    <2>2. TaskSound(task'[p])
      BY <1>2, <1>7, WalkStepTask DEF TaskSound
    <2>. QED BY <1>2, <1>7, <2>1, <2>2, WalkStepTask
  <1>8. CASE Saves(p)
    <2>1. CASE task[p].doing = "pause" /\ run'.status = "awaiting_approval"
      <3>1. task[p].at \in Steps /\ NeedsOk(task[p].at) /\ task[p].want \in Answers
        BY <1>2, <2>1 DEF TaskSound, Task
      <3>2. \/ run'.step_index = task[p].at /\ run'.bundle = BundleFrom(task[p].at, task[p].want)
            \/ FALSE
        BY <1>8, <2>1 DEF Saves
      <3>. QED BY <1>3, <1>8, <3>1, <3>2, BundleTogether DEF Saves, Sound
    <2>2. CASE ~(task[p].doing = "pause" /\ run'.status = "awaiting_approval")
      BY <1>2, <1>3, <1>8, <2>2 DEF Saves, Sound
    <2>. QED BY <2>1, <2>2
  <1>9. CASE Touches(p)
    BY <1>2, <1>3, <1>9 DEF Touches, Sound
  <1>. QED BY <1>4, <1>5, <1>6, <1>7, <1>8, <1>9

THEOREM TypeCorrect == Spec => []TypeOK
  <1>1. Base => TypeOK
    BY DEF Base
  <1>. QED BY BaseInit, BaseStep, <1>1, PTL DEF Spec

-----------------------------------------------------------------------------
\* One process has the run, and nobody once it was skipped.

OneWalk ==
  /\ \A p \in Procs : Walking(p) => run.status \notin {"awaiting_approval", "rejected"}
  /\ \A p, q \in Procs : Walking(p) /\ Walking(q) => p = q
  /\ refused => run.status \in {"rejected", "ok"} /\ \A p \in Procs : ~Walking(p)

\* Who has the run after a step of p: nobody new, but for the one that takes it.
LEMMA WalkersAfter ==
  ASSUME Base, NEW p \in Procs,
         Reads(p) \/ Takes(p) \/ Skips(p) \/ WalkStep(p) \/ Saves(p) \/ Touches(p)
  PROVE  /\ \A q \in Procs \ {p} : Walking(q)' <=> Walking(q)
         /\ Walking(p)' => Walking(p) \/ Takes(p)
         /\ Rests(p) => ~Walking(p)'
         /\ WalkStep(p) => Walking(p)
  <1>1. TypeOK
    BY DEF Base
  <1>2. Rests(p) => task'[p].doing = "nothing" /\ \A q \in Procs \ {p} : task'[q] = task[q]
    BY <1>1, RestStep DEF Rests
  <1>3. CASE Reads(p)
    BY <1>3, <1>2, <1>1, WalkStepTask DEF Reads, Walking
  <1>4. CASE Takes(p)
    BY <1>4, <1>2, <1>1, WalkStepTask DEF Takes, Walking
  <1>5. CASE WalkStep(p)
    BY <1>5, <1>2, <1>1, WalkStepTask DEF Walking
  <1>6. CASE Rests(p)
    BY <1>6, <1>2, <1>1, WalkStepTask DEF Walking
  <1>. QED BY <1>3, <1>4, <1>5, <1>6 DEF Skips, Saves, Touches

LEMMA OneWalkInit == Init => OneWalk
  <1>. SUFFICES ASSUME Init PROVE OneWalk
    OBVIOUS
  <1>1. \A p \in Procs : Walking(p) => p = Worker
    BY DEF Init, Walking, Idle
  <1>2. run.status = "running" /\ ~refused
    BY DEF Init, NewRow
  <1>. QED BY <1>1, <1>2 DEF OneWalk

LEMMA OneWalkStep == Base /\ OneWalk /\ [Next]_vars => OneWalk'
  <1>. SUFFICES ASSUME Base, OneWalk, [Next]_vars PROVE OneWalk'
    OBVIOUS
  <1>1. CASE Stutters
    BY <1>1 DEF Stutters, OneWalk, Walking, history
  <1>. SUFFICES ASSUME NEW p \in Procs,
                       Reads(p) \/ Takes(p) \/ Skips(p) \/ WalkStep(p) \/ Saves(p) \/ Touches(p)
                PROVE  OneWalk'
    BY <1>1, StepKinds
  <1>2. TypeOK
    BY DEF Base
  <1>3. CASE Takes(p)
    <2>1. run.status = "awaiting_approval"
      BY <1>3 DEF Takes, Claims
    <2>2. \A q \in Procs : ~Walking(q)
      BY <2>1 DEF OneWalk
    <2>3. ~refused
      BY <2>1 DEF OneWalk
    <2>4. \A q \in Procs : Walking(q)' => q = p
      BY <1>3, <2>2, WalkersAfter
    <2>. QED BY <1>3, <2>3, <2>4 DEF OneWalk, Takes
  <1>4. CASE Skips(p)
    <2>1. \A q \in Procs : ~Walking(q)'
      BY <1>4, WalkersAfter DEF OneWalk, Skips
    <2>. QED BY <1>4, <2>1 DEF OneWalk, Skips
  <1>5. CASE Saves(p)
    <2>1. Walking(p) /\ ~refused /\ refused' = refused
      BY <1>5 DEF Saves, OneWalk, history
    <2>2. \A q \in Procs : ~Walking(q)'
      BY <1>5, <2>1, WalkersAfter DEF OneWalk, Saves
    <2>. QED BY <2>1, <2>2 DEF OneWalk
  <1>6. CASE (Reads(p) \/ WalkStep(p) \/ Touches(p)) /\ ~Takes(p)
    <2>1. run'.status \in {run.status, "ok"} /\ refused' = refused
      BY <1>2, <1>6, WalkStepTask DEF Reads, Touches, history
    <2>2. \A q \in Procs : Walking(q)' => Walking(q)
      BY <1>6, WalkersAfter
    <2>. QED BY <2>1, <2>2 DEF OneWalk
  <1>. QED BY <1>3, <1>4, <1>5, <1>6

\* Nothing reaches outside once the run was skipped: a step that acts is a step
\* of a walk, and a skipped run has none.
THEOREM SkippedStaysSkipped == Spec => SkippedNeverActs
  <1>1. Base /\ OneWalk /\ [Next]_vars => [refused => acts' = acts]_vars
    <2>. SUFFICES ASSUME Base, OneWalk, [Next]_vars, refused PROVE acts' = acts
      OBVIOUS
    <2>1. CASE Stutters
      BY <2>1 DEF Stutters, history
    <2>2. ASSUME NEW p \in Procs,
                 Reads(p) \/ Takes(p) \/ Skips(p) \/ WalkStep(p) \/ Saves(p) \/ Touches(p)
          PROVE  acts' = acts
      <3>1. ~WalkStep(p)
        BY <2>2, WalkersAfter DEF OneWalk
      <3>. QED BY <2>2, <3>1 DEF Reads, Takes, Skips, Saves, Touches, history
    <2>. QED BY <2>1, <2>2, StepKinds
  <1>. QED BY BaseInit, BaseStep, OneWalkInit, OneWalkStep, <1>1, PTL DEF Spec, SkippedNeverActs

-----------------------------------------------------------------------------
\* What acts was shown.

\* A walk says yes only to steps that need it; each of those still ahead was
\* granted with the words the walk has; and no AI step or rule comes before them,
\* unless the walk is about to pause.
WalkGranted(t, G) ==
  /\ \A j \in Steps : t.want[j] = "yes" => NeedsOk(j)
  /\ \A j \in Steps : t.want[j] = "yes" /\ j >= t.at => [step |-> j, words |-> t.words] \in G
  /\ \/ t.at \in Steps /\ NeedsOk(t.at) /\ t.want[t.at] = "unsaid"
     \/ \A j \in Steps : t.want[j] = "yes" /\ j >= t.at => \A k \in t.at..(j - 1) : ~Breaks(k)

Shown ==
  /\ acted \subseteq granted
  /\ \A p \in Procs : task[p].doing = "walk" => WalkGranted(task[p], granted)

LEMMA ShownInit == Init => Shown
  <1>. SUFFICES ASSUME Init PROVE Shown
    OBVIOUS
  <1>1. acted = {}
    BY DEF Init
  <1>2. \A p \in Procs : task[p].want = Unsaid
    BY DEF Init, Idle
  <1>3. \A j \in Steps : Unsaid[j] # "yes"
    BY DEF Unsaid
  <1>. QED BY <1>1, <1>2, <1>3 DEF Shown, WalkGranted

LEMMA ShownStep == Base /\ Shown /\ [Next]_vars => Shown'
  <1>. SUFFICES ASSUME Base, Shown, [Next]_vars PROVE Shown'
    OBVIOUS
  <1>1. CASE Stutters
    BY <1>1 DEF Stutters, Shown, WalkGranted, history
  <1>. SUFFICES ASSUME NEW p \in Procs,
                       Reads(p) \/ Takes(p) \/ Skips(p) \/ WalkStep(p) \/ Saves(p) \/ Touches(p)
                PROVE  Shown'
    BY <1>1, StepKinds
  <1>2. /\ TypeOK /\ TypeOK' /\ task[p] \in Task /\ Sound(task[p].row)
        /\ task[p].doing = "approve" => TaskSound(task[p])
    BY StepKinds DEF Base, TypeOK, TaskSound
  <1>3. ASSUME granted \subseteq granted', acted' \subseteq granted',
               \A q \in Procs \ {p} : task'[q] = task[q],
               task'[p].doing = "walk" => WalkGranted(task'[p], granted')
        PROVE  Shown'
    <2>1. ASSUME NEW q \in Procs \ {p}, task'[q].doing = "walk"
          PROVE  WalkGranted(task'[q], granted')
      BY <1>3, <2>1 DEF Shown, WalkGranted
    <2>. QED BY <1>3, <2>1 DEF Shown
  <1>4. CASE Rests(p) /\ UNCHANGED <<acted, granted>>
    BY <1>2, <1>3, <1>4, RestStep DEF Rests, Shown
  <1>5. CASE Reads(p)
    BY <1>3, <1>5 DEF Reads, Shown, history
  <1>6. CASE Takes(p)
    <2>. DEFINE t == task[p]
    <2>1. /\ \A i \in Steps : t.want[i] # "unsaid" => i \in t.row.bundle
          /\ Together(t.row.bundle)
          /\ t.row.step_index \in Steps /\ NeedsOk(t.row.step_index)
      BY <1>2, <1>6 DEF Takes, TaskSound, Sound
    <2>2. /\ task'[p].at = t.row.step_index /\ task'[p].want = t.want
          /\ task'[p].words = t.row.resume
      BY <1>6 DEF Takes
    <2>3. \A j \in Steps : t.want[j] = "yes" =>
             j \in t.row.bundle /\ [step |-> j, words |-> t.row.resume] \in granted'
      BY <1>6, <2>1 DEF Takes
    <2>4. t.want[t.row.step_index] # "unsaid" => t.row.step_index \in t.row.bundle
      BY <2>1
    <2>5. WalkGranted(task'[p], granted')
      BY <2>1, <2>2, <2>3, <2>4 DEF WalkGranted, Together
    <2>. QED BY <1>3, <1>6, <2>5 DEF Takes, Shown
  <1>7. CASE WalkStep(p)
    <2>. DEFINE t == task[p]  u == task'[p]
    <2>1. /\ t.doing = "walk" /\ t.at \in Steps /\ WalkGranted(t, granted) /\ u.want = t.want
          /\ granted' = granted /\ \A q \in Procs \ {p} : task'[q] = task[q]
      BY <1>2, <1>7, WalkStepTask DEF Shown
    <2>0. t.at \in Nat /\ \A j \in Steps : j \in Nat
      BY <2>1, PlanFacts DEF Steps
    <2>2. acted' \subseteq granted'
      <3>1. CASE t.want[t.at] = "yes"
        <4>1. [step |-> t.at, words |-> t.words] \in granted
          <5>. HIDE DEF t
          <5>. QED BY <2>0, <2>1, <3>1 DEF WalkGranted
        <4>. QED BY <1>2, <1>7, <2>1, <4>1, WalkStepType DEF Shown
      <3>2. CASE t.want[t.at] # "yes"
        BY <1>2, <1>7, <2>1, <3>2, WalkStepType DEF Shown
      <3>. QED BY <3>1, <3>2
    <2>3. ASSUME u.doing = "walk"
          PROVE  WalkGranted(u, granted')
      <3>1. /\ u.at = t.at + 1
            /\ u.words = t.words \/ Plan[t.at] = "agent"
            /\ t.want[t.at] # "unsaid" \/ ~NeedsOk(t.at)
        BY <1>2, <1>7, <2>3, WalkStepTask
      <3>. HIDE DEF t, u
      <3>2. t.at \in Nat /\ u.at \in Nat /\ \A j \in Steps : j \in Nat
        BY <2>0, <3>1
      <3>3. \A j \in Steps : t.want[j] = "yes" /\ j >= t.at => \A k \in t.at..(j - 1) : ~Breaks(k)
        BY <2>1, <3>1 DEF WalkGranted
      <3>4. \A j \in Steps : u.want[j] = "yes" /\ j >= u.at => \A k \in u.at..(j - 1) : ~Breaks(k)
        BY <2>1, <3>1, <3>2, <3>3
      <3>5. ASSUME NEW j \in Steps, u.want[j] = "yes", j >= u.at
            PROVE  [step |-> j, words |-> u.words] \in granted
        <4>1. t.at \in t.at..(j - 1) /\ j >= t.at /\ t.want[j] = "yes"
          BY <2>1, <3>1, <3>2, <3>5
        <4>2. Plan[t.at] # "agent"
          BY <3>3, <4>1 DEF Breaks
        <4>. QED BY <2>1, <3>1, <4>1, <4>2 DEF WalkGranted
      <3>. QED BY <2>1, <3>4, <3>5 DEF WalkGranted
    <2>. QED BY <1>3, <2>1, <2>2, <2>3
  <1>. QED BY <1>4, <1>5, <1>6, <1>7 DEF Skips, Saves, Touches, history

\* A gated step acts only after a pause that showed it, with the same words, was approved.
THEOREM ActsWereShown == Spec => []ActsAsShown
  <1>1. Shown => ActsAsShown
    BY DEF Shown, ActsAsShown
  <1>. QED BY BaseInit, BaseStep, ShownInit, ShownStep, <1>1, PTL DEF Spec

-----------------------------------------------------------------------------
\* A step acts twice only after a stale decision.

NoneFrom(i, A) == \A j \in Steps : j >= i => A[j] = 0

\* A decision that has read the latest pause waits at the run's own step, and none
\* has read a pause to come.
Current ==
  \A p \in Procs :
    /\ task[p].read <= pauses
    /\ task[p].doing = "approve" /\ run.status = "awaiting_approval" /\ task[p].read = pauses
         => task[p].row.step_index = run.step_index

\* Nothing has acted that is still ahead of a walk, or of the step the run waits at.
Ahead ==
  /\ \A i \in Steps : acts[i] <= 1
  /\ \A p \in Procs : Walking(p) => NoneFrom(task[p].at, acts)
  /\ run.status = "awaiting_approval" => NoneFrom(run.step_index, acts)

LEMMA CurrentInit == Init => Current
  BY DEF Init, Current, Idle

LEMMA CurrentStep == Base /\ Current /\ [Next]_vars => Current'
  <1>. SUFFICES ASSUME Base, Current, [Next]_vars PROVE Current'
    OBVIOUS
  <1>1. CASE Stutters
    BY <1>1 DEF Stutters, Current
  <1>. SUFFICES ASSUME NEW p \in Procs,
                       Reads(p) \/ Takes(p) \/ Skips(p) \/ WalkStep(p) \/ Saves(p) \/ Touches(p)
                PROVE  Current'
    BY <1>1, StepKinds
  <1>2. TypeOK /\ pauses \in Nat /\ \A q \in Procs : task[q].read \in Nat
    BY DEF Base, TypeOK, Task
  <1>3. ASSUME Rests(p)
        PROVE  /\ task'[p].doing = "nothing" /\ task'[p].read = 0
               /\ \A q \in Procs \ {p} : task'[q] = task[q]
    BY <1>2, <1>3, RestStep DEF Rests, Idle
  <1>4. CASE Reads(p)
    BY <1>2, <1>4 DEF Reads, Current
  <1>5. CASE Takes(p)
    BY <1>2, <1>5 DEF Takes, Current
  <1>6. CASE Skips(p)
    BY <1>2, <1>3, <1>6 DEF Skips, Current
  <1>7. CASE WalkStep(p)
    <2>1. /\ run' = run /\ pauses' = pauses
          /\ task'[p].read = task[p].read /\ task'[p].doing # "approve"
          /\ \A q \in Procs \ {p} : task'[q] = task[q]
      BY <1>2, <1>7, WalkStepTask
    <2>. QED BY <1>2, <2>1 DEF Current
  <1>8. CASE Saves(p)
    <2>1. CASE pauses' = pauses + 1
      BY <1>2, <1>3, <1>8, <2>1 DEF Saves, Current
    <2>2. CASE run'.status \in {"ok", "error"} /\ pauses' = pauses
      BY <1>2, <1>3, <1>8, <2>2 DEF Saves, Current
    <2>. QED BY <1>8, <2>1, <2>2 DEF Saves
  <1>9. CASE Touches(p)
    BY <1>2, <1>3, <1>9 DEF Touches, Current
  <1>. QED BY <1>4, <1>5, <1>6, <1>7, <1>8, <1>9

LEMMA AheadInit == Init => Ahead
  <1>. SUFFICES ASSUME Init PROVE Ahead
    OBVIOUS
  <1>1. \A i \in Steps : acts[i] = 0
    BY DEF Init
  <1>2. run.status = "running"
    BY DEF Init, NewRow
  <1>. QED BY <1>1, <1>2 DEF Ahead, NoneFrom

LEMMA AheadStep ==
  Base /\ OneWalk /\ Current /\ (stale \/ Ahead) /\ [Next]_vars => stale' \/ Ahead'
  <1>. SUFFICES ASSUME Base, OneWalk, Current, stale \/ Ahead, [Next]_vars, ~stale'
                PROVE  Ahead'
    OBVIOUS
  <1>1. CASE Stutters
    BY <1>1 DEF Stutters, Ahead, Walking, history
  <1>. SUFFICES ASSUME NEW p \in Procs,
                       Reads(p) \/ Takes(p) \/ Skips(p) \/ WalkStep(p) \/ Saves(p) \/ Touches(p)
                PROVE  Ahead'
    BY <1>1, StepKinds
  <1>2. TypeOK /\ TypeOK' /\ task[p] \in Task /\ acts \in [Steps -> Nat]
    BY StepKinds DEF Base, TypeOK
  <1>3. Ahead
    BY <1>2, WalkStepTask DEF Reads, Takes, Skips, Saves, Touches, history
  \* The walks and their steps after a step that starts none.
  <1>4. ASSUME ~Takes(p), ~WalkStep(p)
        PROVE  \A q \in Procs : Walking(q)' => Walking(q) /\ task'[q].at = task[q].at
    <2>1. ~Walking(p)'
      BY <1>2, <1>4, WalkersAfter DEF Reads, Skips, Saves, Touches, Walking
    <2>2. \A q \in Procs \ {p} : task'[q] = task[q]
      BY <1>2, <1>4, RestStep DEF Reads, Skips, Saves, Touches, Rests
    <2>. QED BY <2>1, <2>2 DEF Walking
  <1>5. CASE Reads(p) \/ Skips(p) \/ Touches(p)
    <2>1. /\ acts' = acts /\ ~Takes(p) /\ ~WalkStep(p)
          /\ run'.status = "awaiting_approval" =>
               run.status = "awaiting_approval" /\ run'.step_index = run.step_index
      <3>1. task'[p].doing \notin {"walk", "pause", "done", "fail"}
        BY <1>2, <1>5, RestStep DEF Reads, Skips, Touches, Rests
      <3>2. ~Takes(p) /\ ~WalkStep(p)
        BY <1>2, <3>1, WalkStepTask DEF Takes
      <3>. QED BY <1>5, <3>2 DEF Reads, Skips, Touches, history
    <2>. QED BY <1>3, <1>4, <2>1 DEF Ahead
  <1>6. CASE Takes(p)
    <2>1. run.status = "awaiting_approval" /\ NoneFrom(run.step_index, acts)
      BY <1>3, <1>6 DEF Takes, Claims, Ahead
    <2>2. task'[p].at = run.step_index
      <3>1. CASE task[p].via = "slack"
        BY <1>6, <3>1 DEF Takes, Claims
      <3>2. CASE task[p].via # "slack"
        <4>1. task[p].via = "app"
          BY <1>2, <3>2 DEF Task
        <4>2. task[p].read = pauses
          BY <1>6, <4>1 DEF Takes
        <4>. QED BY <1>6, <2>1, <4>2 DEF Takes, Current
      <3>. QED BY <3>1, <3>2
    <2>3. \A q \in Procs : Walking(q)' => q = p
      BY <1>6, <2>1, WalkersAfter DEF OneWalk
    <2>4. acts' = acts /\ run'.status # "awaiting_approval"
      BY <1>6 DEF Takes
    <2>. QED BY <1>3, <2>1, <2>2, <2>3, <2>4 DEF Ahead
  <1>7. CASE WalkStep(p)
    <2>1. /\ Walking(p) /\ run' = run /\ run.status # "awaiting_approval"
          /\ NoneFrom(task[p].at, acts)
          /\ task[p].at \in Steps
      BY <1>2, <1>3, <1>7, WalkStepTask DEF OneWalk, Walking, Ahead
    <2>2. \A q \in Procs : Walking(q)' => q = p
      BY <1>7, <2>1, WalkersAfter DEF OneWalk
    <2>9. task[p].at \in Nat /\ \A j \in Steps : j \in Nat
      BY <2>1, PlanFacts DEF Steps
    <2>3. CASE acts' = acts
      <3>1. task'[p].at \in {task[p].at, task[p].at + 1}
        BY <1>2, <1>7, WalkStepTask
      <3>2. NoneFrom(task'[p].at, acts)
        BY <2>9, <2>1, <3>1 DEF NoneFrom
      <3>. QED BY <1>3, <2>1, <2>2, <2>3, <3>2 DEF Ahead
    <2>4. CASE acts' # acts
      <3>1. /\ acts' = [acts EXCEPT ![task[p].at] = @ + 1]
            /\ task'[p].at = task[p].at + 1
        BY <1>2, <1>7, <2>4, WalkStepTask, WalkStepType
      <3>. DEFINE i == task[p].at
      <3>2. i \in Steps /\ i \in Nat /\ acts[i] = 0
        <4>. HIDE DEF i
        <4>1. i \in Steps /\ i \in Nat /\ NoneFrom(i, acts)
          BY <2>9, <2>1 DEF i
        <4>. QED BY <4>1 DEF NoneFrom
      <3>. HIDE DEF i
      <3>3. acts'[i] = 1 /\ \A j \in Steps \ {i} : acts'[j] = acts[j]
        BY <1>2, <3>1, <3>2 DEF i
      <3>4. \A j \in Steps : acts'[j] <= 1
        BY <1>3, <3>2, <3>3 DEF Ahead
      <3>5. NoneFrom(task'[p].at, acts')
        BY <2>9, <2>1, <3>1, <3>2, <3>3 DEF NoneFrom, i
      <3>. QED BY <2>1, <2>2, <3>4, <3>5 DEF Ahead
    <2>. QED BY <2>3, <2>4
  <1>8. CASE Saves(p)
    <2>1. Walking(p) /\ acts' = acts /\ ~Takes(p) /\ ~WalkStep(p) /\ NoneFrom(task[p].at, acts)
      <3>1. task'[p].doing = "nothing"
        BY <1>2, <1>8, RestStep DEF Saves, Rests
      <3>. QED BY <1>2, <1>3, <1>8, <3>1, WalkStepTask DEF Saves, Takes, Ahead, history
    <2>2. run'.status = "awaiting_approval" => run'.step_index = task[p].at
      BY <1>8 DEF Saves
    <2>. QED BY <1>3, <1>4, <2>1, <2>2 DEF Ahead
  <1>. QED BY <1>5, <1>6, <1>7, <1>8

\* No step reaches outside twice unless a decision from the app claimed a later
\* pause than the one it had read.
THEOREM RepeatsAreStale == Spec => []RepeatIsStale
  <1>1. TypeOK /\ (stale \/ Ahead) => RepeatIsStale
    BY DEF TypeOK, Ahead, RepeatIsStale
  <1>2. Init => stale \/ Ahead
    BY AheadInit
  <1>3. Base => TypeOK
    BY DEF Base
  <1>. QED BY BaseInit, BaseStep, OneWalkInit, OneWalkStep, CurrentInit, CurrentStep,
              AheadStep, <1>1, <1>2, <1>3, PTL DEF Spec
=============================================================================
