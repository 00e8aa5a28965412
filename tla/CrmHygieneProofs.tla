-------------------------- MODULE CrmHygieneProofs --------------------------
(***************************************************************************)
(* What holds of CRM hygiene for every set of values, runs and requests    *)
(* and all bounds: its types, loop prevention, that a write loses no edit  *)
(* made before its re-read, rejection memory, that what is reported as     *)
(* applied was written, and that the sync mutes only what Nous wrote.      *)
(***************************************************************************)
EXTENDS CrmHygiene, SequenceTheorems, TLAPS

-----------------------------------------------------------------------------
\* How the log and the rows may change in any step.

LogGrows ==
  /\ Len(log) <= Len(log')
  /\ \A k \in 1..Len(log) : log'[k] = log[k]

RowsKept ==
  /\ Len(proposals) <= Len(proposals')
  /\ \A i \in 1..Len(proposals) :
       /\ proposals'[i].proposed = proposals[i].proposed
       /\ proposals'[i].current = proposals[i].current

LEMMA IngestFacts ==
  ASSUME log \in Seq(Observation), MaxObs \in Nat, NEW v \in Value, NEW own \in BOOLEAN, Ingest(v, own)
  PROVE  /\ log' \in Seq(Observation)
         /\ Len(log') = Len(log) + 1 /\ Len(log') <= MaxObs
         /\ LogGrows
  <1>. DEFINE o == [value |-> v, own |-> own]
  <1>1. o \in Observation
    BY DEF Observation
  <1>2. log' = Append(log, o)
    BY DEF Ingest
  <1>. HIDE DEF o
  <1>3. /\ log' \in Seq(Observation)
        /\ Len(log') = Len(log) + 1
        /\ \A k \in 1..Len(log) : log'[k] = log[k]
    BY <1>1, <1>2, AppendProperties
  <1>4. Len(log) \in Nat /\ Len(log) < MaxObs
    BY DEF Ingest
  <1>. QED BY <1>3, <1>4 DEF LogGrows

LEMMA StatusFacts ==
  ASSUME proposals \in Seq(Proposal), NEW i, NEW s \in Statuses, Status(i, s)
  PROVE  /\ proposals' \in Seq(Proposal)
         /\ Len(proposals') = Len(proposals)
         /\ RowsKept
         /\ \A k \in 1..Len(proposals) :
              proposals'[k].status = IF k = i THEN s ELSE proposals[k].status
  <1>1. /\ proposals \in [1..Len(proposals) -> Proposal]
        /\ Len(proposals) \in Nat
    OBVIOUS
  <1>2. proposals' = [proposals EXCEPT ![i].status = s]
    BY DEF Status
  <1>3. proposals' \in [1..Len(proposals) -> Proposal]
    BY <1>1, <1>2 DEF Proposal
  <1>4. proposals' \in Seq(Proposal) /\ Len(proposals') = Len(proposals)
    BY <1>1, <1>3
  <1>5. \A k \in 1..Len(proposals) :
          /\ proposals'[k].status = IF k = i THEN s ELSE proposals[k].status
          /\ proposals'[k].proposed = proposals[k].proposed
          /\ proposals'[k].current = proposals[k].current
    BY <1>1, <1>2 DEF Proposal
  <1>. QED BY <1>4, <1>5, <1>1 DEF RowsKept

LEMMA InsertFacts ==
  ASSUME proposals \in Seq(Proposal), NEW p \in Proposal, proposals' = Append(proposals, p)
  PROVE  /\ proposals' \in Seq(Proposal)
         /\ Len(proposals') = Len(proposals) + 1
         /\ RowsKept
         /\ \A k \in 1..Len(proposals) : proposals'[k] = proposals[k]
         /\ proposals'[Len(proposals')] = p
  <1>1. /\ proposals' \in Seq(Proposal)
        /\ Len(proposals') = Len(proposals) + 1
        /\ \A k \in 1..Len(proposals) : proposals'[k] = proposals[k]
        /\ proposals'[Len(proposals) + 1] = p
    BY AppendProperties
  <1>2. Len(proposals) \in Nat
    OBVIOUS
  <1>. QED BY <1>1, <1>2 DEF RowsKept

\* Doing nothing to the log or the rows keeps them.
LEMMA LogStays == ASSUME log \in Seq(Observation), log' = log PROVE LogGrows
  BY DEF LogGrows

LEMMA RowsStay == ASSUME proposals \in Seq(Proposal), proposals' = proposals PROVE RowsKept
  BY DEF RowsKept

LEMMA RowNumbers ==
  ASSUME TypeOK
  PROVE  /\ DOMAIN proposals = 1..Len(proposals) /\ Len(proposals) \in Nat
         /\ DOMAIN log = 1..Len(log) /\ Len(log) \in Nat
         /\ \A i \in 1..Len(proposals) : proposals[i] \in Proposal
         /\ \A k \in 1..Len(log) : log[k] \in Observation
  BY DEF TypeOK

-----------------------------------------------------------------------------
\* What a hygiene run may do.

PlanRec == [kind : Kinds, current : Field, proposed : Field]
RunRec == [pc : {"idle", "scan", "decide", "open", "rejected", "insert", "mark"},
           since : 0..Len(log), plan : PlanRec]

\* A run that has a plan has evidence for it.
Planning(r) == run[r].pc \in {"open", "rejected", "insert"}
PlanBacked == \A r \in Run : Planning(r) => HasOwnEvidence(run[r].plan.proposed)

Planned(r) == [status |-> "proposed", kind |-> run[r].plan.kind,
               current |-> run[r].plan.current, proposed |-> run[r].plan.proposed]

LEMMA EvidenceIsValue ==
  ASSUME TypeOK, NEW v, HasOwnEvidence(v)
  PROVE  v \in Value
  BY RowNumbers DEF HasOwnEvidence, Observation

LEMMA DecisionFacts ==
  ASSUME TypeOK, NEW v \in Field, NEW d \in Decisions(v, derived)
  PROVE  /\ d \in PlanRec
         /\ HasOwnEvidence(d.proposed)
  <1>1. PICK fresh \in BOOLEAN :
          /\ d = [kind |-> KindFor(v, fresh), current |-> v, proposed |-> ClaimValue(derived)]
          /\ derived > 0 /\ Passes(derived)
    BY DEF Decisions
  <1>2. derived \in 1..Len(log)
    BY <1>1 DEF TypeOK
  <1>3. PICK i \in 1..derived : log[i].value = log[derived].value /\ log[i].own
    BY <1>1 DEF Passes, Support
  <1>4. ClaimValue(derived) = log[derived].value
    BY <1>2 DEF ClaimValue
  <1>5. HasOwnEvidence(ClaimValue(derived))
    BY <1>2, <1>3, <1>4, RowNumbers DEF HasOwnEvidence
  <1>6. ClaimValue(derived) \in Field
    BY <1>5, EvidenceIsValue DEF Field
  <1>7. KindFor(v, fresh) \in Kinds
    BY DEF KindFor, Kinds
  <1>. QED BY <1>1, <1>5, <1>6, <1>7 DEF PlanRec

LEMMA NoPlanType ==
  /\ NoPlan \in PlanRec
  /\ \A v \in Field : [NoPlan EXCEPT !.current = v] \in PlanRec
  BY DEF NoPlan, PlanRec, Kinds, Field

\* One step of a run: only its own record and the rows change, a plan comes with
\* its evidence, and only a plan that goes past the look among the dismissed is inserted.
RunMoves(r) ==
  /\ run' \in [Run -> RunRec]
  /\ \A q \in Run \ {r} : run'[q] = run[q]
  /\ mark' \in 0..Len(log)
  /\ UNCHANGED unchangedByRun
  /\ \/ UNCHANGED proposals
     \/ /\ run[r].pc = "insert" /\ run'[r].pc = "mark"
        /\ Len(proposals) < MaxProposals
        /\ proposals' = Append(proposals, Planned(r))
  /\ run'[r].pc \in {"open", "rejected", "insert"} => HasOwnEvidence(run'[r].plan.proposed)
  /\ run'[r].pc = "insert" =>
       run[r].pc = "rejected" /\ run'[r].plan = run[r].plan

LEMMA RunTypes ==
  ASSUME TypeOK
  PROVE  /\ run \in [Run -> RunRec] /\ mark \in 0..Len(log) /\ Len(log) \in Nat
         /\ crm.value \in Field
  BY RowNumbers DEF TypeOK, RunRec, PlanRec

LEMMA RunGoesTo ==
  ASSUME TypeOK, NEW r \in Run, NEW rec \in RunRec, run' = [run EXCEPT ![r] = rec],
         UNCHANGED unchangedByRun, mark' \in 0..Len(log),
         \/ UNCHANGED proposals
         \/ /\ run[r].pc = "insert" /\ rec.pc = "mark"
            /\ Len(proposals) < MaxProposals
            /\ proposals' = Append(proposals, Planned(r)),
         rec.pc \in {"open", "rejected", "insert"} => HasOwnEvidence(rec.plan.proposed),
         rec.pc = "insert" => run[r].pc = "rejected" /\ rec.plan = run[r].plan
  PROVE  RunMoves(r)
  <1>1. run \in [Run -> RunRec]
    BY RunTypes
  <1>2. run'[r] = rec /\ run' \in [Run -> RunRec] /\ \A q \in Run \ {r} : run'[q] = run[q]
    BY <1>1
  <1>. QED BY <1>2 DEF RunMoves

LEMMA RunStepFacts ==
  ASSUME TypeOK, PlanBacked, NEW r \in Run, RunStep(r)
  PROVE  RunMoves(r)
  <1>. DEFINE To(pc, plan) == [pc |-> pc, since |-> 0, plan |-> plan]
  <1>1. /\ run \in [Run -> RunRec] /\ mark \in 0..Len(log) /\ Len(log) \in Nat
        /\ crm.value \in Field /\ run[r].plan \in PlanRec
    BY RunTypes DEF RunRec
  <1>2. \A pc \in {"decide", "open", "rejected", "insert", "mark"}, plan \in PlanRec :
           To(pc, plan) \in RunRec /\ To(pc, plan).pc = pc /\ To(pc, plan).plan = plan
    BY <1>1 DEF RunRec
  <1>3. IdleRun \in RunRec /\ IdleRun.pc = "idle"
    BY <1>1, NoPlanType DEF RunRec, IdleRun
  <1>4. To("mark", NoPlan) \in RunRec /\ To("mark", NoPlan).pc = "mark"
    BY <1>2, NoPlanType
  <1>5. CASE StartRun(r)
    <2>. DEFINE rec == [IdleRun EXCEPT !.pc = "scan", !.since = mark]
    <2>1. rec \in RunRec /\ rec.pc = "scan"
      BY <1>1, NoPlanType DEF RunRec, IdleRun
    <2>2. run' = [run EXCEPT ![r] = rec] /\ UNCHANGED <<mark, proposals, unchangedByRun>>
      BY <1>5 DEF StartRun
    <2>. HIDE DEF rec
    <2>. QED BY <1>1, <2>1, <2>2, RunGoesTo
  <1>6. CASE FetchField(r)
    <2>. DEFINE plan == [NoPlan EXCEPT !.current = crm.value]
    <2>1. plan \in PlanRec
      BY <1>1, NoPlanType
    <2>2. UNCHANGED <<mark, proposals, unchangedByRun>>
      BY <1>6 DEF FetchField
    <2>3. CASE run' = [run EXCEPT ![r] = To("decide", plan)]
      <3>. HIDE DEF plan
      <3>1. To("decide", plan) \in RunRec /\ To("decide", plan).pc = "decide"
        BY <1>2, <2>1
      <3>. HIDE DEF To
      <3>. QED BY <1>1, <2>2, <2>3, <3>1, RunGoesTo
    <2>4. CASE run' = [run EXCEPT ![r] = To("mark", NoPlan)]
      <3>. HIDE DEF To
      <3>. QED BY <1>1, <1>4, <2>2, <2>4, RunGoesTo
    <2>. QED BY <1>6, <2>3, <2>4 DEF FetchField, Plan, Drop
  <1>7. CASE Decide(r)
    <2>1. UNCHANGED <<mark, proposals, unchangedByRun>>
      BY <1>7 DEF Decide
    <2>2. ASSUME NEW d \in Decisions(run[r].plan.current, derived),
                 run' = [run EXCEPT ![r] = To("open", d)]
          PROVE  RunMoves(r)
      <3>1. run[r].plan.current \in Field
        BY <1>1 DEF PlanRec
      <3>2. d \in PlanRec /\ HasOwnEvidence(d.proposed)
        BY <3>1, DecisionFacts
      <3>3. /\ To("open", d) \in RunRec /\ To("open", d).pc = "open"
            /\ HasOwnEvidence(To("open", d).plan.proposed)
        BY <1>2, <3>2
      <3>. HIDE DEF To
      <3>. QED BY <1>1, <2>1, <2>2, <3>3, RunGoesTo
    <2>3. CASE run' = [run EXCEPT ![r] = To("mark", NoPlan)]
      <3>. HIDE DEF To
      <3>. QED BY <1>1, <1>4, <2>1, <2>3, RunGoesTo
    <2>. QED BY <1>7, <2>2, <2>3 DEF Decide, Plan, Drop
  <1>8. CASE LookForOpen(r) \/ LookForRejected(r)
    <2>1. /\ UNCHANGED <<mark, proposals, unchangedByRun>>
          /\ Planning(r)
      BY <1>8 DEF LookForOpen, LookForRejected, Planning
    <2>2. HasOwnEvidence(run[r].plan.proposed)
      BY <2>1 DEF PlanBacked
    <2>3. CASE run' = [run EXCEPT ![r] = To("mark", NoPlan)]
      <3>. HIDE DEF To
      <3>. QED BY <1>1, <1>4, <2>1, <2>3, RunGoesTo
    <2>4. CASE run' = [run EXCEPT ![r] = To("rejected", run[r].plan)]
      <3>1. /\ To("rejected", run[r].plan) \in RunRec
            /\ To("rejected", run[r].plan).pc = "rejected"
            /\ HasOwnEvidence(To("rejected", run[r].plan).plan.proposed)
        BY <1>1, <1>2, <2>2
      <3>. HIDE DEF To
      <3>. QED BY <1>1, <2>1, <2>4, <3>1, RunGoesTo
    <2>5. CASE /\ run[r].pc = "rejected"
               /\ run' = [run EXCEPT ![r] = To("insert", run[r].plan)]
      <3>1. /\ To("insert", run[r].plan) \in RunRec
            /\ To("insert", run[r].plan).pc = "insert"
            /\ To("insert", run[r].plan).plan = run[r].plan
            /\ HasOwnEvidence(To("insert", run[r].plan).plan.proposed)
        BY <1>1, <1>2, <2>2
      <3>. HIDE DEF To
      <3>. QED BY <1>1, <2>1, <2>5, <3>1, RunGoesTo
    <2>. QED BY <1>8, <2>3, <2>4, <2>5 DEF LookForOpen, LookForRejected, Plan, Drop
  <1>9. CASE Insert(r)
    <2>1. /\ run[r].pc = "insert" /\ UNCHANGED <<mark, unchangedByRun>>
          /\ run' = [run EXCEPT ![r] = To("mark", NoPlan)]
          /\ \/ UNCHANGED proposals
             \/ Len(proposals) < MaxProposals /\ proposals' = Append(proposals, Planned(r))
      BY <1>9 DEF Insert, Drop, Plan, Planned
    <2>. HIDE DEF To
    <2>. QED BY <1>1, <1>4, <2>1, RunGoesTo
  <1>10. CASE Mark(r) \/ RunDies(r)
    <2>1. /\ run' = [run EXCEPT ![r] = IdleRun] /\ UNCHANGED <<proposals, unchangedByRun>>
          /\ mark' \in {mark, Len(log)}
      BY <1>10 DEF Mark, RunDies
    <2>2. mark' \in 0..Len(log)
      BY <1>1, <2>1
    <2>. QED BY <1>3, <2>1, <2>2, RunGoesTo
  <1>. QED BY <1>5, <1>6, <1>7, <1>8, <1>9, <1>10 DEF RunStep

-----------------------------------------------------------------------------
\* What a decision and the write that follows it may do.

AskRec == [pc : {"idle", "reread", "patch", "remember", "settle"},
           row : 0..Len(proposals), rev : 0..crm.rev, outcome : {"applied", "failed"}]

\* A request has its row; what it reports as applied was written; and until the
\* record changes, the CRM holds what it held at the re-read.
AskFits(a) ==
  /\ ask[a].pc # "idle" => ask[a].row \in 1..Len(proposals)
  /\ ask[a].pc = "remember" \/ ask[a].outcome = "applied" => ask[a].row \in wrote
  /\ ask[a].pc = "patch" /\ ask[a].rev = crm.rev =>
       crm.value = proposals[ask[a].row].current

AsksFit == \A a \in Ask : AskFits(a)

\* Changing the step of a request, and its row or the change count it read.
LEMMA NewRev ==
  ASSUME NEW P, NEW R, NEW V, NEW O, NEW t \in [pc : P, row : R, rev : V, outcome : O],
         NEW p \in P, NEW v \in V
  PROVE  /\ [t EXCEPT !.pc = p, !.rev = v] \in [pc : P, row : R, rev : V, outcome : O]
         /\ [t EXCEPT !.pc = p, !.rev = v].pc = p
         /\ [t EXCEPT !.pc = p, !.rev = v].row = t.row
         /\ [t EXCEPT !.pc = p, !.rev = v].rev = v
         /\ [t EXCEPT !.pc = p, !.rev = v].outcome = t.outcome
  OBVIOUS

LEMMA NewRow ==
  ASSUME NEW P, NEW R, NEW V, NEW O, NEW t \in [pc : P, row : R, rev : V, outcome : O],
         NEW p \in P, NEW i \in R
  PROVE  /\ [t EXCEPT !.pc = p, !.row = i] \in [pc : P, row : R, rev : V, outcome : O]
         /\ [t EXCEPT !.pc = p, !.row = i].pc = p
         /\ [t EXCEPT !.pc = p, !.row = i].row = i
         /\ [t EXCEPT !.pc = p, !.row = i].outcome = t.outcome
  OBVIOUS

LEMMA AskTypes ==
  ASSUME TypeOK
  PROVE  /\ ask \in [Ask -> AskRec] /\ asks \in 0..MaxAsks
         /\ wrote \subseteq 1..Len(proposals)
         /\ crm.value \in Field /\ crm.rev \in Nat /\ written \in Field
         /\ Len(proposals) \in Nat
  BY RowNumbers DEF TypeOK, AskRec

\* One step of a request or a decision: rows keep their contents, a row becomes
\* applied only when it was written, and the CRM changes only by a recorded write.
AskMoves ==
  /\ proposals' \in Seq(Proposal) /\ Len(proposals') = Len(proposals) /\ RowsKept
  /\ asks' \in 0..MaxAsks
  /\ \A i \in 1..Len(proposals) :
       proposals'[i].status = "applied" => proposals[i].status = "applied" \/ i \in wrote
  /\ wrote \subseteq wrote' /\ wrote' \subseteq 1..Len(proposals)
  /\ \/ UNCHANGED crm
     \/ \E i \in wrote' : crm' = [value |-> proposals[i].proposed, by |-> "nous",
                                  rev |-> crm.rev + 1]
  /\ \/ written' = written
     \/ \E i \in wrote : written' = proposals[i].proposed
  /\ UNCHANGED unchangedByAsk

\* What becomes of the request a itself.
AskGoes(a) ==
  /\ ask' \in [Ask -> AskRec']
  /\ \A b \in Ask \ {a} : ask'[b] = ask[b]
  /\ AskFits(a)'

LEMMA AskRecGrows ==
  ASSUME TypeOK, Len(proposals') = Len(proposals), crm' = crm \/ crm'.rev = crm.rev + 1
  PROVE  AskRec \subseteq AskRec'
  BY AskTypes DEF AskRec

LEMMA AskGoesTo ==
  ASSUME TypeOK, NEW a \in Ask, NEW rec \in AskRec, ask' = [ask EXCEPT ![a] = rec],
         AskRec \subseteq AskRec', Len(proposals') = Len(proposals),
         rec.pc # "idle" => rec.row \in 1..Len(proposals),
         rec.pc = "remember" \/ rec.outcome = "applied" => rec.row \in wrote',
         rec.pc = "patch" /\ rec.rev = crm'.rev => crm'.value = proposals'[rec.row].current
  PROVE  AskGoes(a)
  <1>1. ask \in [Ask -> AskRec]
    BY AskTypes
  <1>2. ask'[a] = rec /\ ask' \in [Ask -> AskRec'] /\ \A b \in Ask \ {a} : ask'[b] = ask[b]
    BY <1>1
  <1>. QED BY <1>2 DEF AskGoes, AskFits

LEMMA IdleAskType == ASSUME TypeOK PROVE IdleAsk \in AskRec /\ IdleAsk.pc = "idle" /\ IdleAsk.outcome = "failed"
  BY AskTypes DEF IdleAsk, AskRec

\* A step that leaves the rows, the CRM and what was written alone.
LEMMA AskRests ==
  ASSUME TypeOK, UNCHANGED <<crm, proposals, written, wrote, asks, unchangedByAsk>>
  PROVE  AskMoves /\ AskRec \subseteq AskRec' /\ Len(proposals') = Len(proposals)
  <1>1. proposals \in Seq(Proposal)
    BY DEF TypeOK
  <1>2. RowsKept
    BY <1>1, RowsStay
  <1>. QED BY <1>1, <1>2, AskTypes, AskRecGrows DEF AskMoves

\* A step that only sets the status of a row.
LEMMA StatusMoves ==
  ASSUME TypeOK, NEW i \in Nat, NEW s \in Statuses, Status(i, s), s = "applied" => i \in wrote,
         asks' \in 0..MaxAsks,
         UNCHANGED <<crm, written, wrote, unchangedByAsk>>
  PROVE  AskMoves /\ AskRec \subseteq AskRec' /\ Len(proposals') = Len(proposals)
  <1>1. proposals \in Seq(Proposal)
    BY DEF TypeOK
  <1>2. /\ proposals' \in Seq(Proposal) /\ Len(proposals') = Len(proposals) /\ RowsKept
        /\ \A k \in 1..Len(proposals) :
             proposals'[k].status = IF k = i THEN s ELSE proposals[k].status
    BY <1>1, StatusFacts
  <1>3. AskRec \subseteq AskRec'
    BY <1>2, AskRecGrows
  <1>4. \A k \in 1..Len(proposals) :
          proposals'[k].status = "applied" => proposals[k].status = "applied" \/ k \in wrote
    BY <1>2
  <1>. QED BY <1>2, <1>3, <1>4, AskTypes DEF AskMoves

LEMMA DecidedMoves ==
  ASSUME TypeOK, NEW i \in 1..Len(proposals), NEW s \in {"approved", "dismissed"}, Decided(i, s),
         UNCHANGED <<crm, written, wrote, unchangedByAsk>>
  PROVE  AskMoves /\ AskRec \subseteq AskRec' /\ Len(proposals') = Len(proposals)
  <1>1. asks' \in 0..MaxAsks /\ Status(i, s) /\ s \in Statuses /\ s # "applied" /\ i \in Nat
    BY AskTypes, BoundsAssumption DEF Decided, Statuses
  <1>. QED BY <1>1, StatusMoves

LEMMA RecordFacts ==
  ASSUME TypeOK, NEW i \in 1..Len(proposals), Record(i)
  PROVE  AskMoves /\ AskRec \subseteq AskRec' /\ UNCHANGED ask
  BY DecidedMoves DEF Record

LEMMA AskStepFacts ==
  ASSUME TypeOK, AsksFit, NEW a \in Ask, AskStep(a)
  PROVE  AskMoves /\ AskRec \subseteq AskRec' /\ AskGoes(a)
  <1>1. /\ ask \in [Ask -> AskRec] /\ ask[a] \in AskRec
        /\ crm.value \in Field /\ crm.rev \in Nat /\ written \in Field
        /\ Len(proposals) \in Nat /\ AskFits(a) /\ wrote \subseteq 1..Len(proposals)
    BY AskTypes DEF AsksFit
  <1>2. CASE \E i \in DOMAIN proposals : Approve(a, i)
    <2>1. PICK i \in 1..Len(proposals) : Approve(a, i)
      BY <1>2, RowNumbers
    <2>. DEFINE rec == [IdleAsk EXCEPT !.pc = "reread", !.row = i]
    <2>2. rec \in AskRec /\ rec.pc = "reread" /\ rec.row = i /\ rec.outcome = "failed"
      <3>1. IdleAsk \in AskRec /\ IdleAsk.outcome = "failed"
        BY IdleAskType
      <3>2. "reread" \in {"idle", "reread", "patch", "remember", "settle"} /\ i \in 0..Len(proposals)
        BY <1>1
      <3>. QED BY <3>1, <3>2, NewRow DEF AskRec
    <2>5. ask' = [ask EXCEPT ![a] = rec]
      BY <2>1 DEF Approve
    <2>4. AskMoves /\ AskRec \subseteq AskRec' /\ Len(proposals') = Len(proposals)
      BY <2>1, DecidedMoves DEF Approve
    <2>. HIDE DEF rec
    <2>. QED BY <2>2, <2>4, <2>5, AskGoesTo
  <1>3. CASE Refused(a)
    <2>. DEFINE rec == [ask[a] EXCEPT !.pc = "settle", !.rev = 0]
    <2>3. /\ rec \in AskRec /\ rec.pc = "settle" /\ rec.row = ask[a].row
          /\ rec.outcome = ask[a].outcome
      <3>1. 0 \in 0..crm.rev /\ "settle" \in {"idle", "reread", "patch", "remember", "settle"}
        BY <1>1
      <3>. QED BY <1>1, <3>1, NewRev DEF AskRec
    <2>1. ask' = [ask EXCEPT ![a] = rec] /\ ask[a].pc # "idle"
      BY <1>1, <1>3 DEF Refused
    <2>2. AskMoves /\ AskRec \subseteq AskRec' /\ Len(proposals') = Len(proposals) /\ wrote' = wrote
      BY <1>3, AskRests DEF Refused
    <2>. HIDE DEF rec
    <2>. QED BY <1>1, <2>1, <2>2, <2>3, AskGoesTo DEF AskFits
  <1>4. CASE Reread(a)
    <2>1. /\ AskMoves /\ AskRec \subseteq AskRec' /\ Len(proposals') = Len(proposals)
          /\ wrote' = wrote /\ proposals' = proposals /\ crm' = crm
          /\ ask[a].pc = "reread"
      BY <1>4, AskRests DEF Reread
    <2>2. CASE crm.value = proposals[ask[a].row].current
      <3>. DEFINE rec == [ask[a] EXCEPT !.pc = "patch", !.rev = crm.rev]
      <3>1. /\ rec \in AskRec /\ rec.pc = "patch" /\ rec.row = ask[a].row
            /\ rec.outcome = ask[a].outcome
        <4>1. crm.rev \in 0..crm.rev /\ "patch" \in {"idle", "reread", "patch", "remember", "settle"}
          BY <1>1
        <4>. QED BY <1>1, <4>1, NewRev DEF AskRec
      <3>3. ask' = [ask EXCEPT ![a] = rec]
        BY <1>1, <1>4, <2>2 DEF Reread
      <3>. HIDE DEF rec
      <3>. QED BY <1>1, <2>1, <2>2, <3>1, <3>3, AskGoesTo DEF AskFits
    <2>3. CASE crm.value # proposals[ask[a].row].current
      <3>. DEFINE rec == [ask[a] EXCEPT !.pc = "settle"]
      <3>1. /\ rec \in AskRec /\ rec.pc = "settle" /\ rec.row = ask[a].row
            /\ rec.outcome = ask[a].outcome
            /\ ask' = [ask EXCEPT ![a] = rec]
        BY <1>1, <1>4, <2>3 DEF AskRec, Reread
      <3>. HIDE DEF rec
      <3>. QED BY <1>1, <2>1, <3>1, AskGoesTo DEF AskFits
    <2>. QED BY <2>2, <2>3
  <1>5. CASE Patch(a)
    <2>. DEFINE row == ask[a].row
    <2>1. /\ ask[a].pc = "patch" /\ row \in 1..Len(proposals)
          /\ crm' = [value |-> proposals[row].proposed, by |-> "nous", rev |-> crm.rev + 1]
          /\ wrote' = wrote \cup {row} /\ proposals' = proposals
          /\ UNCHANGED <<written, asks, unchangedByAsk>>
      BY <1>1, <1>5 DEF Patch, Set, AskFits
    <2>. DEFINE rec == [ask[a] EXCEPT !.pc = "remember", !.rev = 0]
    <2>6. rec \in AskRec /\ rec.pc = "remember" /\ rec.row = row
      <3>1. 0 \in 0..crm.rev /\ "remember" \in {"idle", "reread", "patch", "remember", "settle"}
        BY <1>1
      <3>. QED BY <1>1, <3>1, NewRev DEF AskRec
    <2>2. ask' = [ask EXCEPT ![a] = rec]
      BY <1>1, <1>5 DEF Patch
    <2>3. proposals \in Seq(Proposal) /\ RowsKept
      BY <2>1, RowsStay DEF TypeOK
    <2>. HIDE DEF rec, row
    <2>4. crm'.rev = crm.rev + 1 /\ AskRec \subseteq AskRec'
      BY <2>1, AskRecGrows
    <2>5. AskMoves
      BY <1>1, <2>1, <2>3, AskTypes DEF AskMoves
    <2>8. row \in wrote'
      BY <2>1
    <2>. QED BY <2>1, <2>2, <2>4, <2>5, <2>6, <2>8, AskGoesTo
  <1>6. CASE Remember(a)
    <2>. DEFINE rec == [ask[a] EXCEPT !.pc = "settle", !.outcome = "applied"]
    <2>1. /\ rec \in AskRec /\ rec.pc = "settle" /\ rec.row = ask[a].row
          /\ ask' = [ask EXCEPT ![a] = rec]
          /\ UNCHANGED <<crm, proposals, wrote, asks, unchangedByAsk>>
          /\ written' \in {written, proposals[ask[a].row].proposed}
          /\ ask[a].row \in wrote /\ ask[a].row \in 1..Len(proposals)
      BY <1>1, <1>6 DEF AskRec, Remember, AskFits
    <2>2. proposals \in Seq(Proposal) /\ RowsKept
      BY <2>1, RowsStay DEF TypeOK
    <2>. HIDE DEF rec
    <2>3. AskRec \subseteq AskRec'
      BY <2>1, AskRecGrows
    <2>4. AskMoves
      BY <1>1, <2>1, <2>2, AskTypes DEF AskMoves
    <2>. QED BY <2>1, <2>3, <2>4, AskGoesTo
  <1>7. CASE Settle(a)
    <2>1. /\ Status(ask[a].row, ask[a].outcome)
          /\ ask' = [ask EXCEPT ![a] = IdleAsk]
          /\ UNCHANGED <<crm, written, wrote, asks, unchangedByAsk>>
      BY <1>7 DEF Settle
    <2>2. /\ ask[a].row \in Nat /\ ask[a].outcome \in Statuses
          /\ ask[a].outcome = "applied" => ask[a].row \in wrote
          /\ asks' \in 0..MaxAsks
      BY <1>1, <2>1, AskTypes DEF AskRec, AskFits, Statuses
    <2>3. AskMoves /\ AskRec \subseteq AskRec' /\ Len(proposals') = Len(proposals)
      BY <2>1, <2>2, StatusMoves
    <2>. QED BY <2>1, <2>3, IdleAskType, AskGoesTo
  <1>8. CASE AskDies(a)
    <2>1. /\ ask' = [ask EXCEPT ![a] = IdleAsk]
          /\ UNCHANGED <<crm, proposals, written, wrote, asks, unchangedByAsk>>
      BY <1>8 DEF AskDies
    <2>2. AskMoves /\ AskRec \subseteq AskRec' /\ Len(proposals') = Len(proposals)
      BY <2>1, AskRests
    <2>. QED BY <2>1, <2>2, IdleAskType, AskGoesTo
  <1>. QED BY <1>2, <1>3, <1>4, <1>5, <1>6, <1>7, <1>8 DEF AskStep

-----------------------------------------------------------------------------
\* What the sync may do.

Hows == {"not", "heard", "lost"}
PullRec == [pc : {"idle", "fetch", "echo", "consume", "upsert", "end"},
            at : 0..crm.rev, got : 0..crm.rev, value : Field, cut : Cuts, how : Hows]

\* What the sync takes for an echo was written; it fetches after it starts, unless its
\* contacts are cut short; and where it ends with the record not worked through, the
\* record has changed since, or had not changed since the cursor.
PullFits ==
  /\ pull.pc = "consume" => \E i \in wrote : proposals[i].proposed = pull.value
  /\ pull.pc \in {"echo", "consume", "upsert"} => pull.at <= pull.got /\ seen < pull.got
  /\ pull.pc = "end" /\ pull.cut # "contacts" => pull.at <= pull.got
  /\ pull.pc = "end" /\ pull.how = "not" => pull.got < crm.rev \/ seen = crm.rev

WrittenFits == written # Blank => \E i \in wrote : proposals[i].proposed = written

LEMMA PullTypes ==
  ASSUME TypeOK
  PROVE  /\ pull \in PullRec /\ seen \in 0..crm.rev /\ crm.rev \in Nat /\ crm.value \in Field
         /\ log \in Seq(Observation) /\ Len(log) \in Nat /\ Len(log) <= MaxObs
  BY RowNumbers DEF TypeOK, PullRec, Hows

\* Records of the sync, field by field.
LEMMA NewPull ==
  ASSUME NEW P, NEW N, NEW V, NEW C, NEW H,
         NEW t \in [pc : P, at : N, got : N, value : V, cut : C, how : H],
         NEW p \in P, NEW x \in N, NEW y \in N, NEW v \in V, NEW c \in C, NEW h \in H
  PROVE  LET R == [pc : P, at : N, got : N, value : V, cut : C, how : H] IN
         /\ [t EXCEPT !.pc = p] \in R
         /\ [t EXCEPT !.pc = p].pc = p /\ [t EXCEPT !.pc = p].value = t.value
         /\ [t EXCEPT !.pc = p].at = t.at /\ [t EXCEPT !.pc = p].got = t.got
         /\ [t EXCEPT !.pc = p, !.at = x] \in R
         /\ [t EXCEPT !.pc = p, !.at = x].pc = p
         /\ [t EXCEPT !.pc = p, !.got = y, !.value = v] \in R
         /\ [t EXCEPT !.pc = p, !.got = y, !.value = v].pc = p
         /\ [t EXCEPT !.pc = p, !.got = y, !.value = v].at = t.at
         /\ [t EXCEPT !.pc = p, !.got = y, !.value = v].got = y
         /\ [t EXCEPT !.pc = p, !.at = x, !.got = y, !.cut = c, !.how = h] \in R
         /\ [t EXCEPT !.pc = p, !.at = x, !.got = y, !.cut = c, !.how = h].pc = p
         /\ [t EXCEPT !.pc = p, !.at = x, !.got = y, !.cut = c, !.how = h].at = x
         /\ [t EXCEPT !.pc = p, !.at = x, !.got = y, !.cut = c, !.how = h].got = y
         /\ [t EXCEPT !.pc = p, !.at = x, !.got = y, !.cut = c, !.how = h].cut = c
         /\ [t EXCEPT !.pc = p, !.at = x, !.got = y, !.cut = c, !.how = h].how = h
  OBVIOUS

LEMMA IdlePullType == ASSUME TypeOK PROVE IdlePull \in PullRec /\ IdlePull.pc = "idle"
  BY PullTypes DEF IdlePull, PullRec, Field, Cuts, Hows

\* One step of the sync: observations are only added, the record of a write only
\* consumed, and the cursor comes to the record as it stands only once that is worked
\* through, or when another kind was cut short.
PullMoves ==
  /\ pull' \in PullRec
  /\ log' \in Seq(Observation) /\ Len(log') <= MaxObs /\ LogGrows
  /\ written' \in {written, Blank}
  /\ seen' \in 0..crm.rev
  /\ seen' # seen /\ seen' = crm.rev =>
       \/ pull.got = crm.rev /\ pull.how \in {"heard", "lost"}
       \/ pull.cut = "others"
  /\ pull'.pc = "consume" => \E i \in wrote : proposals[i].proposed = pull'.value
  /\ pull'.pc \in {"echo", "consume", "upsert"} => pull'.at <= pull'.got /\ seen' < pull'.got
  /\ pull'.pc = "end" /\ pull'.cut # "contacts" => pull'.at <= pull'.got
  /\ pull'.pc = "end" /\ pull'.how = "not" => pull'.got < crm.rev \/ seen' = crm.rev
  /\ UNCHANGED unchangedByPull

LEMMA PullStepFacts ==
  ASSUME TypeOK, PullFits, WrittenFits, PullStep
  PROVE  PullMoves
  <1>. DEFINE P == {"idle", "fetch", "echo", "consume", "upsert", "end"}
  <1>1. /\ pull \in PullRec /\ seen \in 0..crm.rev /\ crm.rev \in Nat /\ crm.value \in Field
        /\ log \in Seq(Observation) /\ Len(log) \in Nat /\ Len(log) <= MaxObs
        /\ (log' = log => LogGrows)
    BY PullTypes, LogStays
  <1>2. IdlePull \in PullRec /\ IdlePull.pc = "idle"
    BY IdlePullType
  <1>3. crm.rev \in 0..crm.rev /\ pull.at \in 0..crm.rev /\ pull.got \in 0..crm.rev
        /\ pull.value \in Field /\ pull.cut \in Cuts /\ pull.how \in Hows
    BY <1>1 DEF PullRec
  <1>4. \A got \in 0..crm.rev, cut \in Cuts, how \in Hows :
          /\ AtEnd(got, cut, how) \in PullRec /\ AtEnd(got, cut, how).pc = "end"
          /\ AtEnd(got, cut, how).at = pull.at /\ AtEnd(got, cut, how).got = got
          /\ AtEnd(got, cut, how).cut = cut /\ AtEnd(got, cut, how).how = how
    <2>. SUFFICES ASSUME NEW got \in 0..crm.rev, NEW cut \in Cuts, NEW how \in Hows
         PROVE  /\ AtEnd(got, cut, how) \in PullRec /\ AtEnd(got, cut, how).pc = "end"
                /\ AtEnd(got, cut, how).at = pull.at /\ AtEnd(got, cut, how).got = got
                /\ AtEnd(got, cut, how).cut = cut /\ AtEnd(got, cut, how).how = how
      OBVIOUS
    <2>1. "end" \in P
      OBVIOUS
    <2>. QED BY <1>2, <1>3, <2>1, NewPull DEF AtEnd, PullRec
  <1>5. /\ pull.got \in Nat /\ pull.got <= crm.rev
        /\ (seen < pull.got => seen # crm.rev)
    BY <1>1, <1>3
  <1>6. CASE BeginPull
    <2>. DEFINE rec == [IdlePull EXCEPT !.pc = "fetch", !.at = crm.rev]
    <2>1. "fetch" \in P
      OBVIOUS
    <2>2. rec \in PullRec /\ rec.pc = "fetch"
      BY <1>2, <1>3, <2>1, NewPull DEF PullRec
    <2>3. pull' = rec /\ UNCHANGED <<log, written, seen, unchangedByPull>>
      BY <1>6 DEF BeginPull
    <2>. HIDE DEF rec
    <2>. QED BY <1>1, <2>2, <2>3 DEF PullMoves
  <1>7. CASE FetchRecord
    <2>1. UNCHANGED <<log, written, seen, unchangedByPull>>
      BY <1>7 DEF FetchRecord
    <2>2. CASE /\ crm.rev > seen
               /\ pull' = [pull EXCEPT !.pc = "echo", !.got = crm.rev, !.value = crm.value]
      <3>. DEFINE rec == [pull EXCEPT !.pc = "echo", !.got = crm.rev, !.value = crm.value]
      <3>1. "echo" \in P
        OBVIOUS
      <3>2. rec \in PullRec /\ rec.pc = "echo" /\ rec.at = pull.at /\ rec.got = crm.rev
        BY <1>1, <1>3, <3>1, NewPull DEF PullRec
      <3>3. pull' = rec
        BY <2>2
      <3>4. pull.at <= crm.rev /\ seen < crm.rev
        BY <1>1, <1>3, <2>2
      <3>. HIDE DEF rec
      <3>. QED BY <1>1, <2>1, <3>2, <3>3, <3>4 DEF PullMoves
    <2>3. CASE crm.rev > seen /\ pull' = AtEnd(crm.rev - 1, "contacts", "not")
      <3>1. /\ crm.rev - 1 \in 0..crm.rev /\ crm.rev - 1 < crm.rev
            /\ "contacts" \in Cuts /\ "not" \in Hows
        BY <1>1, <2>3 DEF Cuts, Hows
      <3>2. /\ pull' \in PullRec /\ pull'.pc = "end" /\ pull'.cut = "contacts"
            /\ pull'.got < crm.rev
        BY <1>4, <2>3, <3>1
      <3>. QED BY <1>1, <2>1, <3>2 DEF PullMoves
    <2>4. ASSUME ~(crm.rev > seen), NEW cut \in Cuts, pull' = AtEnd(crm.rev, cut, "not")
          PROVE  PullMoves
      <3>1. seen' = crm.rev /\ seen' = seen /\ "not" \in Hows
        BY <1>1, <2>1, <2>4 DEF Hows
      <3>2. /\ pull' \in PullRec /\ pull'.pc = "end" /\ pull'.at = pull.at /\ pull'.got = crm.rev
        BY <1>3, <1>4, <2>4, <3>1
      <3>3. pull'.at <= pull'.got
        BY <1>1, <1>3, <3>2
      <3>. QED BY <1>1, <2>1, <3>1, <3>2, <3>3 DEF PullMoves
    <2>. QED BY <1>7, <2>2, <2>3, <2>4 DEF FetchRecord
  <1>8. CASE LookForEcho
    <2>1. /\ UNCHANGED <<log, written, seen, unchangedByPull>>
          /\ pull.at <= pull.got /\ seen < pull.got
      BY <1>8 DEF LookForEcho, PullFits
    <2>2. CASE IsEcho /\ pull' = [pull EXCEPT !.pc = "consume"]
      <3>. DEFINE rec == [pull EXCEPT !.pc = "consume"]
      <3>1. "consume" \in P
        OBVIOUS
      <3>2. /\ rec \in PullRec /\ rec.pc = "consume" /\ rec.at = pull.at /\ rec.got = pull.got
            /\ rec.value = pull.value
        BY <1>1, <1>3, <3>1, NewPull DEF PullRec
      <3>3. \E i \in wrote : proposals[i].proposed = pull.value
        BY <2>2 DEF IsEcho, WrittenFits
      <3>4. pull' = rec
        BY <2>2
      <3>. HIDE DEF rec
      <3>. QED BY <1>1, <1>3, <2>1, <3>2, <3>3, <3>4 DEF PullMoves
    <2>3. CASE pull' = [pull EXCEPT !.pc = "upsert"]
      <3>. DEFINE rec == [pull EXCEPT !.pc = "upsert"]
      <3>1. "upsert" \in P
        OBVIOUS
      <3>2. rec \in PullRec /\ rec.pc = "upsert" /\ rec.at = pull.at /\ rec.got = pull.got
        BY <1>1, <1>3, <3>1, NewPull DEF PullRec
      <3>4. pull' = rec
        BY <2>3
      <3>. HIDE DEF rec
      <3>. QED BY <1>1, <1>3, <2>1, <3>2, <3>4 DEF PullMoves
    <2>. QED BY <1>8, <2>2, <2>3 DEF LookForEcho
  <1>9. CASE Consume
    <2>1. PICK cut \in Cuts : pull' = AtEnd(pull.got, cut, "heard")
      BY <1>9 DEF Consume
    <2>2. /\ written' \in {written, Blank} /\ UNCHANGED <<log, seen, unchangedByPull>>
          /\ pull.at <= pull.got /\ "heard" \in Hows
      BY <1>9 DEF Consume, PullFits, Hows
    <2>3. /\ pull' \in PullRec /\ pull'.pc = "end" /\ pull'.at = pull.at /\ pull'.got = pull.got
          /\ pull'.how = "heard"
      BY <1>3, <1>4, <2>1, <2>2
    <2>. QED BY <1>1, <2>2, <2>3 DEF PullMoves
  <1>10. CASE Upsert
    <2>1. PICK cut \in Cuts, how \in {"heard", "lost"} : pull' = AtEnd(pull.got, cut, how)
      BY <1>10 DEF Upsert
    <2>4. /\ UNCHANGED <<written, seen, unchangedByPull>> /\ pull.at <= pull.got
          /\ how \in Hows /\ how # "not"
      BY <1>10 DEF Upsert, PullFits, Hows
    <2>2. log' \in Seq(Observation) /\ Len(log') <= MaxObs /\ LogGrows
      <3>1. CASE UNCHANGED log
        BY <1>1, <3>1
      <3>2. CASE pull.value # Blank /\ Ingest(pull.value, FALSE)
        <4>1. pull.value \in Value /\ FALSE \in BOOLEAN
          BY <1>3, <3>2 DEF Field
        <4>2. \A v \in Value, own \in BOOLEAN :
                Ingest(v, own) => /\ log' \in Seq(Observation)
                                  /\ Len(log') <= MaxObs /\ LogGrows
          BY <1>1, IngestFacts, BoundsAssumption
        <4>. QED BY <3>2, <4>1, <4>2
      <3>. QED BY <1>10, <3>1, <3>2 DEF Upsert, Stated
    <2>3. /\ pull' \in PullRec /\ pull'.pc = "end" /\ pull'.at = pull.at /\ pull'.got = pull.got
          /\ pull'.how # "not"
      BY <1>3, <1>4, <2>1, <2>4
    <2>. QED BY <1>1, <2>2, <2>3, <2>4 DEF PullMoves
  <1>11. CASE EndPull
    <2>1. /\ pull' = IdlePull /\ UNCHANGED <<log, written, unchangedByPull>>
          /\ pull.how = "not" => pull.got < crm.rev \/ seen = crm.rev
          /\ pull.cut # "contacts" => pull.at <= pull.got
      BY <1>11 DEF EndPull, PullFits
    <2>2. seen' \in 0..crm.rev
      BY <1>1, <1>3, <1>11 DEF EndPull
    <2>3. ASSUME seen' # seen, seen' = crm.rev, pull.cut # "others"
          PROVE  pull.got = crm.rev /\ pull.how \in {"heard", "lost"}
      <3>1. pull.got = crm.rev
        BY <1>1, <1>3, <1>5, <1>11, <2>1, <2>3 DEF EndPull
      <3>2. pull.how # "not"
        BY <1>1, <2>1, <2>3, <3>1
      <3>. QED BY <1>3, <3>1, <3>2 DEF Hows
    <2>. QED BY <1>1, <1>2, <2>1, <2>2, <2>3 DEF PullMoves
  <1>12. CASE PullFails
    <2>1. pull' = IdlePull /\ UNCHANGED <<log, written, seen, unchangedByPull>>
      BY <1>12 DEF PullFails
    <2>. QED BY <1>1, <1>2, <2>1 DEF PullMoves
  <1>. QED BY <1>6, <1>7, <1>8, <1>9, <1>10, <1>11, <1>12 DEF PullStep

-----------------------------------------------------------------------------
\* The world, and what every step has in common.

CrmRec == [value : Field, by : {"human", "nous"}, rev : Nat]

\* A step of the world: someone edits the record, evidence comes in, a claim is derived,
\* a proposal ages.
WorldMoves ==
  /\ log' \in Seq(Observation) /\ Len(log') <= MaxObs /\ LogGrows
  /\ \/ crm' = crm
     \/ \E v \in Field : crm' = [value |-> v, by |-> "human", rev |-> crm.rev + 1]
  /\ derived' \in 0..Len(log') /\ edits' \in Nat
  /\ aged \subseteq aged' /\ aged' \subseteq 1..Len(proposals)
  /\ UNCHANGED <<mark, proposals, written, run, ask, asks, pull, seen, wrote>>

LEMMA WorldFacts ==
  ASSUME TypeOK, HumanEdit \/ Observe \/ Derive \/ Age
  PROVE  WorldMoves
  <1>1. /\ log \in Seq(Observation) /\ Len(log) \in Nat /\ Len(log) <= MaxObs
        /\ derived \in 0..Len(log) /\ (log' = log => LogGrows)
    BY PullTypes, LogStays DEF TypeOK
  <1>2. aged \subseteq 1..Len(proposals) /\ edits \in Nat
    BY RowNumbers DEF TypeOK
  <1>3. CASE HumanEdit
    BY <1>1, <1>2, <1>3 DEF HumanEdit, Set, WorldMoves
  <1>4. CASE Observe
    <2>1. PICK v \in Value : Ingest(v, TRUE)
      BY <1>4 DEF Observe
    <2>2. /\ log' \in Seq(Observation) /\ Len(log') = Len(log) + 1 /\ Len(log') <= MaxObs
          /\ LogGrows
      BY <1>1, <2>1, IngestFacts, BoundsAssumption
    <2>3. derived' \in 0..Len(log')
      BY <1>1, <1>4, <2>2 DEF Observe
    <2>. QED BY <1>2, <1>4, <2>2, <2>3 DEF Observe, WorldMoves
  <1>5. CASE Derive
    BY <1>1, <1>2, <1>5 DEF Derive, WorldMoves
  <1>6. CASE Age
    BY <1>1, <1>2, <1>6, RowNumbers DEF Age, Dismissed, WorldMoves
  <1>. QED BY <1>3, <1>4, <1>5, <1>6

\* Every step: nothing is forgotten, and the record changes one change at a time.
Frame ==
  /\ log' \in Seq(Observation) /\ Len(log') <= MaxObs /\ LogGrows
  /\ proposals' \in Seq(Proposal) /\ Len(proposals') <= MaxProposals /\ RowsKept
  /\ crm' \in CrmRec /\ (crm' = crm \/ crm'.rev = crm.rev + 1)
  /\ aged \subseteq aged' /\ aged' \subseteq 1..Len(proposals') /\ edits' \in Nat
  /\ wrote \subseteq wrote' /\ wrote' \subseteq 1..Len(proposals')

LEMMA Stock ==
  ASSUME TypeOK
  PROVE  /\ log \in Seq(Observation) /\ Len(log) \in Nat /\ Len(log) <= MaxObs
         /\ proposals \in Seq(Proposal) /\ Len(proposals) \in Nat
         /\ Len(proposals) <= MaxProposals
         /\ crm \in CrmRec /\ crm.rev \in Nat
         /\ wrote \subseteq 1..Len(proposals)
         /\ aged \subseteq 1..Len(proposals) /\ edits \in Nat
         /\ (log' = log => LogGrows) /\ (proposals' = proposals => RowsKept)
         /\ \A i \in 1..Len(proposals) : proposals[i] \in Proposal
  <1>1. /\ log \in Seq(Observation) /\ proposals \in Seq(Proposal) /\ crm \in CrmRec
        /\ Len(log) <= MaxObs /\ Len(proposals) <= MaxProposals
        /\ wrote \subseteq DOMAIN proposals /\ aged \subseteq 1..Len(proposals) /\ edits \in Nat
    BY DEF TypeOK, CrmRec
  <1>2. crm.rev \in Nat
    BY <1>1 DEF CrmRec
  <1>. QED BY <1>1, <1>2, RowNumbers, LogStays, RowsStay

LEMMA WorldFrame ==
  ASSUME TypeOK, WorldMoves
  PROVE  Frame
  <1>1. crm' \in CrmRec /\ (crm' = crm \/ crm'.rev = crm.rev + 1)
    BY Stock DEF WorldMoves, CrmRec
  <1>. QED BY <1>1, Stock DEF WorldMoves, Frame

LEMMA PlannedType == ASSUME TypeOK, NEW r \in Run, HasOwnEvidence(run[r].plan.proposed) PROVE Planned(r) \in Proposal
  <1>1. run[r].plan.proposed \in Value
    BY EvidenceIsValue
  <1>2. run[r].plan \in PlanRec
    BY RunTypes DEF RunRec
  <1>. QED BY <1>1, <1>2 DEF Planned, Proposal, PlanRec, Statuses

LEMMA RunFrame ==
  ASSUME TypeOK, PlanBacked, NEW r \in Run, RunMoves(r)
  PROVE  Frame
  <1>1. UNCHANGED unchangedByRun
    BY DEF RunMoves
  <1>2. CASE UNCHANGED proposals
    BY <1>1, <1>2, Stock DEF Frame, unchangedByRun
  <1>3. CASE /\ run[r].pc = "insert" /\ Len(proposals) < MaxProposals
             /\ proposals' = Append(proposals, Planned(r))
    <2>1. Planned(r) \in Proposal
      BY <1>3, PlannedType DEF PlanBacked, Planning
    <2>2. /\ proposals' \in Seq(Proposal) /\ RowsKept
          /\ Len(proposals') = Len(proposals) + 1
      BY <1>3, <2>1, Stock, InsertFacts
    <2>3. Len(proposals') <= MaxProposals /\ wrote' \subseteq 1..Len(proposals')
      BY <1>1, <1>3, <2>2, Stock, BoundsAssumption DEF unchangedByRun
    <2>. QED BY <1>1, <2>2, <2>3, Stock DEF Frame, unchangedByRun
  <1>. QED BY <1>2, <1>3 DEF RunMoves

LEMMA AskFrame ==
  ASSUME TypeOK, AskMoves
  PROVE  Frame
  <1>1. crm' \in CrmRec /\ (crm' = crm \/ crm'.rev = crm.rev + 1)
    <2>1. CASE crm' = crm
      BY <2>1, Stock
    <2>2. CASE \E i \in wrote' : crm' = [value |-> proposals[i].proposed, by |-> "nous",
                                         rev |-> crm.rev + 1]
      <3>1. PICK i \in 1..Len(proposals) : crm' = [value |-> proposals[i].proposed,
                                                   by |-> "nous", rev |-> crm.rev + 1]
        BY <2>2 DEF AskMoves
      <3>2. proposals[i].proposed \in Field
        BY <3>1, Stock DEF Proposal, Field
      <3>. QED BY <3>1, <3>2, Stock DEF CrmRec
    <2>. QED BY <2>1, <2>2 DEF AskMoves
  <1>. QED BY <1>1, Stock DEF AskMoves, Frame, unchangedByAsk

LEMMA PullFrame ==
  ASSUME TypeOK, PullMoves
  PROVE  Frame
  BY Stock DEF PullMoves, Frame, unchangedByPull

\* What had evidence has it, and what had a type has it still.
LEMMA EvidenceStays ==
  ASSUME TypeOK, Frame
  PROVE  \A v \in Value : HasOwnEvidence(v) => \E k \in DOMAIN log' : log'[k].own /\ log'[k].value = v
  <1>. SUFFICES ASSUME NEW v \in Value, HasOwnEvidence(v)
       PROVE  \E k \in DOMAIN log' : log'[k].own /\ log'[k].value = v
    OBVIOUS
  <1>1. PICK k \in 1..Len(log) : log[k].own /\ log[k].value = v
    BY RowNumbers DEF HasOwnEvidence
  <1>2. log' \in Seq(Observation) /\ LogGrows
    BY DEF Frame
  <1>3. k \in DOMAIN log' /\ log'[k] = log[k]
    BY <1>1, <1>2, Stock DEF LogGrows
  <1>. QED BY <1>1, <1>3

LEMMA TypesStay ==
  ASSUME TypeOK, Frame
  PROVE  /\ 0..Len(log) \subseteq 0..Len(log') /\ 0..crm.rev \subseteq 0..crm'.rev
         /\ RunRec \subseteq RunRec' /\ PullRec \subseteq PullRec' /\ AskRec \subseteq AskRec'
         /\ [Run -> RunRec] \subseteq [Run -> RunRec'] /\ [Ask -> AskRec] \subseteq [Ask -> AskRec']
  <1>1. /\ Len(log') \in Nat /\ Len(log) <= Len(log') /\ Len(proposals') \in Nat
        /\ Len(proposals) <= Len(proposals') /\ crm'.rev \in Nat /\ crm.rev <= crm'.rev
    BY Stock DEF Frame, LogGrows, RowsKept, CrmRec
  <1>2. /\ 0..Len(log) \subseteq 0..Len(log') /\ 0..crm.rev \subseteq 0..crm'.rev
        /\ 0..Len(proposals) \subseteq 0..Len(proposals')
    BY <1>1, Stock
  <1>3. RunRec \subseteq RunRec'
    BY <1>2 DEF RunRec, PlanRec
  <1>4. PullRec \subseteq PullRec'
    BY <1>2 DEF PullRec
  <1>5. AskRec \subseteq AskRec'
    BY <1>2 DEF AskRec
  <1>6. [Run -> RunRec] \subseteq [Run -> RunRec'] /\ [Ask -> AskRec] \subseteq [Ask -> AskRec']
    BY <1>3, <1>5
  <1>. QED BY <1>2, <1>3, <1>4, <1>5, <1>6

-----------------------------------------------------------------------------
\* The inductive invariant, and each part of it step by step.

\* A dismissal on record still stands, and a plan about to be inserted is none of
\* those on record.
SnubsStand ==
  \A r \in Run :
    /\ snubbed[r] \subseteq Dismissed(proposals) /\ (\A i \in snubbed[r] : i \notin aged)
    /\ run[r].pc = "insert" =>
         \A i \in snubbed[r] : proposals[i].proposed # run[r].plan.proposed

Sound ==
  /\ TypeOK /\ PlanBacked /\ BackedByOthers /\ AsksFit /\ AppliedWasWritten
  /\ WrittenFits /\ PullFits /\ SnubsStand

\* The four kinds of steps, and a step that changes nothing.
AskMoved == AskMoves /\ (UNCHANGED ask \/ \E a \in Ask : AskGoes(a))

Moves ==
  \/ WorldMoves
  \/ \E r \in Run : RunMoves(r)
  \/ AskMoved
  \/ PullMoves

LEMMA MovesFrame ==
  ASSUME Sound, Moves
  PROVE  Frame
  BY WorldFrame, RunFrame, AskFrame, PullFrame DEF Moves, Sound, AskMoved

LEMMA NextMoves ==
  ASSUME Sound, Next
  PROVE  Moves /\ Snub
  <1>. USE DEF Sound
  <1>1. CASE HumanEdit \/ Observe \/ Derive \/ Age
    BY <1>1, WorldFacts DEF Moves, Next
  <1>2. CASE \E r \in Run : RunStep(r)
    BY <1>2, RunStepFacts DEF Moves, Next
  <1>3. CASE \E i \in DOMAIN proposals : Record(i)
    <2>1. AskMoved
      BY <1>3, RecordFacts, RowNumbers DEF AskMoved
    <2>. QED BY <2>1 DEF Moves, Next
  <1>4. CASE \E a \in Ask : AskStep(a)
    <2>1. AskMoved
      BY <1>4, AskStepFacts DEF AskMoved
    <2>. QED BY <2>1 DEF Moves, Next
  <1>5. CASE PullStep
    BY <1>5, PullStepFacts DEF Moves, Next
  <1>. QED BY <1>1, <1>2, <1>3, <1>4, <1>5 DEF Next

LEMMA SnubFacts ==
  ASSUME TypeOK, Frame, Snub
  PROVE  /\ snubbed' \in [Run -> SUBSET DOMAIN proposals']
         /\ \A r \in Run : /\ snubbed'[r] \subseteq Dismissed(proposals)'
                           /\ \A i \in snubbed'[r] : i \notin aged'
                           /\ Deaf(r) => snubbed'[r] = {}
                           /\ run[r].pc # "idle" => snubbed'[r] \subseteq snubbed[r]
  BY DEF Snub, Dismissed

LEMMA RunsTyped ==
  ASSUME Sound, Moves
  PROVE  run' \in [Run -> RunRec']
  <1>1. run \in [Run -> RunRec] /\ [Run -> RunRec] \subseteq [Run -> RunRec'] /\ Frame
    BY MovesFrame, TypesStay, RunTypes DEF Sound
  <1>2. CASE \E r \in Run : RunMoves(r)
    BY <1>1, <1>2 DEF RunMoves
  <1>3. CASE UNCHANGED run
    BY <1>1, <1>3
  <1>. QED BY <1>2, <1>3 DEF Moves, WorldMoves, AskMoved, AskMoves, PullMoves,
                            unchangedByAsk, unchangedByPull

LEMMA AsksTyped ==
  ASSUME Sound, Moves
  PROVE  ask' \in [Ask -> AskRec']
  <1>1. ask \in [Ask -> AskRec] /\ [Ask -> AskRec] \subseteq [Ask -> AskRec']
    BY MovesFrame, TypesStay, AskTypes DEF Sound
  <1>2. CASE \E a \in Ask : AskGoes(a)
    BY <1>2 DEF AskGoes
  <1>3. CASE UNCHANGED ask
    BY <1>1, <1>3
  <1>. QED BY <1>2, <1>3 DEF Moves, WorldMoves, AskMoved, RunMoves, PullMoves,
                            unchangedByRun, unchangedByPull

LEMMA PullTyped ==
  ASSUME Sound, Moves
  PROVE  pull' \in PullRec' /\ seen' \in 0..crm'.rev
  <1>1. /\ pull \in PullRec /\ PullRec \subseteq PullRec'
        /\ seen \in 0..crm.rev /\ 0..crm.rev \subseteq 0..crm'.rev
    BY MovesFrame, TypesStay, PullTypes DEF Sound
  <1>2. CASE PullMoves
    BY <1>1, <1>2 DEF PullMoves, unchangedByPull
  <1>3. CASE UNCHANGED <<pull, seen>>
    BY <1>1, <1>3
  <1>. QED BY <1>2, <1>3 DEF Moves, WorldMoves, AskMoved, RunMoves, AskMoves,
                            unchangedByRun, unchangedByAsk

\* What the claim, the watermark, the decisions and the record of writes hold.
LEMMA RestTyped ==
  ASSUME Sound, Moves
  PROVE  /\ derived' \in 0..Len(log') /\ mark' \in 0..Len(log') /\ asks' \in 0..MaxAsks
         /\ written' \in Field
  <1>1. /\ derived \in 0..Len(log) /\ mark \in 0..Len(log) /\ asks \in 0..MaxAsks
        /\ written \in Field /\ 0..Len(log) \subseteq 0..Len(log')
    BY MovesFrame, TypesStay DEF Sound, TypeOK
  <1>2. CASE WorldMoves
    BY <1>1, <1>2 DEF WorldMoves
  <1>3. CASE \E r \in Run : RunMoves(r)
    BY <1>1, <1>3 DEF RunMoves, unchangedByRun
  <1>4. CASE AskMoved
    <2>1. written' \in Field
      <3>1. \A i \in wrote : proposals[i].proposed \in Field
        BY Stock DEF Sound, Proposal, Field
      <3>. QED BY <1>1, <1>4, <3>1 DEF AskMoved, AskMoves
    <2>. QED BY <1>1, <1>4, <2>1 DEF AskMoved, AskMoves, unchangedByAsk
  <1>5. CASE PullMoves
    BY <1>1, <1>5 DEF PullMoves, unchangedByPull, Field
  <1>. QED BY <1>2, <1>3, <1>4, <1>5 DEF Moves

LEMMA TypeStep ==
  ASSUME Sound, Moves, Snub
  PROVE  TypeOK'
  <1>1. Frame
    BY MovesFrame
  <1>2. snubbed' \in [Run -> SUBSET DOMAIN proposals']
    BY <1>1, SnubFacts DEF Sound
  <1>3. DOMAIN proposals' = 1..Len(proposals')
    BY <1>1 DEF Frame
  <1>4. aged' \subseteq DOMAIN proposals'
    BY <1>1, <1>3 DEF Frame
  <1>. QED BY <1>1, <1>2, <1>3, <1>4, RunsTyped, AsksTyped, PullTyped, RestTyped
           DEF TypeOK, Frame, CrmRec, RunRec, PlanRec, AskRec, PullRec, Hows

LEMMA PlansStep ==
  ASSUME Sound, Moves
  PROVE  PlanBacked'
  <1>. SUFFICES ASSUME NEW r \in Run, Planning(r)'
       PROVE  HasOwnEvidence(run[r].plan.proposed)'
    BY DEF PlanBacked
  <1>1. HasOwnEvidence(run'[r].plan.proposed)
    <2>1. CASE run'[r] = run[r]
      BY <2>1 DEF Sound, PlanBacked, Planning
    <2>2. CASE RunMoves(r)
      BY <2>2 DEF RunMoves, Planning
    <2>. QED BY <2>1, <2>2 DEF Moves, WorldMoves, RunMoves, AskMoved, AskMoves, PullMoves,
                              unchangedByAsk, unchangedByPull
  <1>2. run'[r].plan.proposed \in Value
    BY <1>1, EvidenceIsValue DEF Sound
  <1>. QED BY <1>1, <1>2, MovesFrame, EvidenceStays DEF Sound, HasOwnEvidence

LEMMA BackedStep ==
  ASSUME Sound, Moves
  PROVE  BackedByOthers'
  <1>1. /\ Frame /\ TypeOK
        /\ \A v \in Value : HasOwnEvidence(v) =>
             \E k \in DOMAIN log' : log'[k].own /\ log'[k].value = v
    BY MovesFrame, EvidenceStays DEF Sound
  <1>2. ASSUME NEW v, HasOwnEvidence(v)
        PROVE  \E k \in DOMAIN log' : log'[k].own /\ log'[k].value = v
    BY <1>1, <1>2, EvidenceIsValue
  <1>3. \A i \in 1..Len(proposals) : HasOwnEvidence(proposals[i].proposed)
    BY RowNumbers DEF Sound, BackedByOthers
  <1>4. \A i \in DOMAIN proposals' : HasOwnEvidence(proposals'[i].proposed)
    <2>1. DOMAIN proposals' = 1..Len(proposals')
      BY <1>1 DEF Frame
    <2>2. CASE Len(proposals') = Len(proposals)
      BY <1>1, <1>3, <2>1, <2>2 DEF Frame, RowsKept
    <2>3. ASSUME NEW r \in Run, run[r].pc = "insert",
                 proposals' = Append(proposals, Planned(r))
          PROVE  \A i \in DOMAIN proposals' : HasOwnEvidence(proposals'[i].proposed)
      <3>1. HasOwnEvidence(run[r].plan.proposed)
        BY <2>3 DEF Sound, PlanBacked, Planning
      <3>2. Planned(r) \in Proposal /\ Planned(r).proposed = run[r].plan.proposed
        BY <1>1, <3>1, PlannedType DEF Planned
      <3>. HIDE DEF Planned
      <3>3. /\ Len(proposals') = Len(proposals) + 1
            /\ \A k \in 1..Len(proposals) : proposals'[k] = proposals[k]
            /\ proposals'[Len(proposals')] = Planned(r)
        BY <1>1, <2>3, <3>2, Stock, InsertFacts
      <3>. QED BY <1>1, <1>3, <2>1, <3>1, <3>2, <3>3, Stock
    <2>. QED BY <2>2, <2>3 DEF Moves, WorldMoves, RunMoves, AskMoved, AskMoves, PullMoves,
                              unchangedByPull
  <1>5. crm'.by = "nous" => HasOwnEvidence(crm'.value)
    <2>1. CASE crm' = crm
      BY <2>1 DEF Sound, BackedByOthers
    <2>2. CASE \E v \in Field : crm' = [value |-> v, by |-> "human", rev |-> crm.rev + 1]
      BY <2>2
    <2>3. CASE AskMoved /\ \E i \in wrote' : crm' = [value |-> proposals[i].proposed,
                                                     by |-> "nous", rev |-> crm.rev + 1]
      BY <1>3, <2>3 DEF AskMoved, AskMoves
    <2>. QED BY <2>1, <2>2, <2>3 DEF Moves, WorldMoves, RunMoves, AskMoved, AskMoves, PullMoves,
                                    unchangedByRun, unchangedByPull
  <1>. QED BY <1>2, <1>4, <1>5 DEF BackedByOthers, HasOwnEvidence

LEMMA AsksStep ==
  ASSUME Sound, Moves
  PROVE  AsksFit'
  <1>. SUFFICES ASSUME NEW a \in Ask
       PROVE  AskFits(a)'
    BY DEF AsksFit
  <1>1. /\ Frame /\ AskFits(a) /\ ask[a] \in AskRec /\ Len(proposals) \in Nat
        /\ crm.rev \in Nat /\ Len(proposals) <= Len(proposals')
    BY MovesFrame, AskTypes, Stock DEF Sound, AsksFit, Frame, RowsKept
  <1>2. CASE AskGoes(a)
    BY <1>2 DEF AskGoes
  <1>3. CASE ask'[a] = ask[a]
    <2>1. ask'[a].pc # "idle" => ask'[a].row \in 1..Len(proposals')
      BY <1>1, <1>3 DEF AskFits, Frame
    <2>2. ask'[a].pc = "remember" \/ ask'[a].outcome = "applied" => ask'[a].row \in wrote'
      BY <1>1, <1>3 DEF AskFits, Frame
    <2>3. ASSUME ask'[a].pc = "patch", ask'[a].rev = crm'.rev
          PROVE  crm'.value = proposals'[ask'[a].row].current
      <3>1. ask[a].rev \in 0..crm.rev
        BY <1>1 DEF AskRec
      <3>2. crm' = crm
        BY <1>1, <1>3, <2>3, <3>1 DEF Frame
      <3>3. /\ ask[a].row \in 1..Len(proposals)
            /\ crm.value = proposals[ask[a].row].current
        BY <1>1, <1>3, <2>3, <3>2 DEF AskFits
      <3>. QED BY <1>1, <1>3, <3>2, <3>3 DEF Frame, RowsKept
    <2>. QED BY <2>1, <2>2, <2>3 DEF AskFits
  <1>. QED BY <1>2, <1>3 DEF Moves, WorldMoves, RunMoves, AskMoved, AskGoes, PullMoves,
                            unchangedByRun, unchangedByPull

LEMMA AppliedStep ==
  ASSUME Sound, Moves
  PROVE  AppliedWasWritten'
  <1>1. /\ Frame /\ TypeOK /\ DOMAIN proposals' = 1..Len(proposals')
        /\ \A i \in 1..Len(proposals) : proposals[i].status = "applied" => i \in wrote
    BY MovesFrame, RowNumbers DEF Sound, Frame, AppliedWasWritten
  <1>2. CASE AskMoved
    BY <1>1, <1>2 DEF AskMoved, AskMoves, AppliedWasWritten
  <1>3. CASE UNCHANGED proposals
    BY <1>1, <1>3 DEF Frame, AppliedWasWritten
  <1>4. ASSUME NEW r \in Run, run[r].pc = "insert", proposals' = Append(proposals, Planned(r))
        PROVE  AppliedWasWritten'
    <2>1. Planned(r) \in Proposal /\ Planned(r).status = "proposed"
      BY <1>1, <1>4, PlannedType DEF Sound, PlanBacked, Planning, Planned
    <2>. HIDE DEF Planned
    <2>2. /\ Len(proposals') = Len(proposals) + 1
          /\ \A k \in 1..Len(proposals) : proposals'[k] = proposals[k]
          /\ proposals'[Len(proposals')] = Planned(r)
      BY <1>1, <1>4, <2>1, Stock, InsertFacts
    <2>. QED BY <1>1, <2>1, <2>2, Stock DEF Frame, AppliedWasWritten
  <1>. QED BY <1>2, <1>3, <1>4 DEF Moves, WorldMoves, RunMoves, PullMoves, unchangedByPull

LEMMA WrittenStep ==
  ASSUME Sound, Moves
  PROVE  WrittenFits'
  <1>1. /\ Frame /\ wrote \subseteq wrote'
        /\ \A i \in wrote : proposals'[i].proposed = proposals[i].proposed
    BY MovesFrame, Stock DEF Sound, Frame, RowsKept
  <1>2. CASE written' \in {written, Blank}
    BY <1>1, <1>2 DEF Sound, WrittenFits
  <1>3. CASE \E i \in wrote : written' = proposals[i].proposed
    BY <1>1, <1>3 DEF WrittenFits
  <1>. QED BY <1>2, <1>3 DEF Moves, WorldMoves, RunMoves, AskMoved, AskMoves, PullMoves,
                            unchangedByRun

LEMMA PullFitsStep ==
  ASSUME Sound, Moves
  PROVE  PullFits'
  <1>1. /\ Frame /\ wrote \subseteq wrote'
        /\ \A i \in wrote : proposals'[i].proposed = proposals[i].proposed
    BY MovesFrame, Stock DEF Sound, Frame, RowsKept
  <1>2. CASE PullMoves
    BY <1>1, <1>2 DEF PullMoves, PullFits, unchangedByPull
  <1>3. CASE UNCHANGED <<pull, seen>>
    <2>1. /\ crm.rev \in Nat /\ seen \in 0..crm.rev /\ pull.got \in 0..crm.rev
          /\ crm' = crm \/ crm'.rev = crm.rev + 1
      BY <1>1, PullTypes DEF Sound, Frame, PullRec
    <2>. QED BY <1>1, <1>3, <2>1 DEF Sound, PullFits
  <1>. QED BY <1>2, <1>3 DEF Moves, WorldMoves, RunMoves, AskMoved, AskMoves,
                            unchangedByRun, unchangedByAsk

LEMMA SnubsStep ==
  ASSUME Sound, Moves, Snub
  PROVE  SnubsStand'
  <1>. SUFFICES ASSUME NEW r \in Run
       PROVE  /\ snubbed'[r] \subseteq Dismissed(proposals)' /\ (\A i \in snubbed'[r] : i \notin aged')
              /\ run'[r].pc = "insert" =>
                   \A i \in snubbed'[r] : proposals'[i].proposed # run'[r].plan.proposed
    BY DEF SnubsStand
  <1>1. /\ Frame /\ snubbed'[r] \subseteq Dismissed(proposals)'
        /\ (\A i \in snubbed'[r] : i \notin aged') /\ (Deaf(r) => snubbed'[r] = {})
        /\ (\A i \in snubbed[r] : i \notin aged)
        /\ run[r].pc # "idle" => snubbed'[r] \subseteq snubbed[r]
        /\ snubbed[r] \subseteq Dismissed(proposals)
    BY MovesFrame, SnubFacts DEF Sound, SnubsStand
  <1>2. ASSUME run'[r].pc = "insert", NEW i \in snubbed'[r]
        PROVE  proposals'[i].proposed # run'[r].plan.proposed
    <2>1. \/ run'[r] = run[r]
          \/ run[r].pc = "rejected" /\ run'[r].plan = run[r].plan
      BY <1>2 DEF Moves, WorldMoves, RunMoves, AskMoved, AskMoves, PullMoves,
                  unchangedByAsk, unchangedByPull
    <2>2. i \in snubbed[r] /\ i \in Dismissed(proposals) /\ i \notin aged
      BY <1>1, <1>2, <2>1
    <2>3. proposals'[i].proposed = proposals[i].proposed
      BY <1>1, <2>2, RowNumbers DEF Sound, Frame, RowsKept, Dismissed
    <2>4. CASE run'[r] = run[r]
      BY <1>2, <2>2, <2>3, <2>4 DEF Sound, SnubsStand
    <2>5. CASE run[r].pc = "rejected" /\ run'[r].plan = run[r].plan
      <3>1. ~Rejected(run[r].plan)
        BY <1>1, <1>2, <2>5 DEF Deaf
      <3>. QED BY <2>2, <2>3, <2>5, <3>1 DEF Rejected, Dismissed
    <2>. QED BY <2>1, <2>4, <2>5
  <1>. QED BY <1>1, <1>2

-----------------------------------------------------------------------------
\* The invariant holds, and so do the properties.

LEMMA SoundAtFirst == Init => Sound
  <1>. SUFFICES ASSUME Init
       PROVE  Sound
    OBVIOUS
  <1>. USE BoundsAssumption DEF Init
  <1>1. /\ log = <<>> /\ proposals = <<>>
        /\ <<>> \in Seq(Observation) /\ <<>> \in Seq(Proposal)
        /\ Len(log) = 0 /\ Len(proposals) = 0
        /\ DOMAIN proposals = {} /\ DOMAIN log = {}
    OBVIOUS
  <1>2. NoPlan \in [kind : Kinds, current : Field, proposed : Field]
    BY NoPlanType DEF PlanRec
  <1>3. TypeOK
    BY <1>1, <1>2 DEF TypeOK, Field, Cuts, IdleRun, IdleAsk, IdlePull
  <1>4. /\ PlanBacked /\ BackedByOthers /\ AsksFit /\ AppliedWasWritten
        /\ WrittenFits /\ PullFits
    BY <1>1 DEF PlanBacked, Planning, BackedByOthers, AsksFit, AskFits,
       AppliedWasWritten, WrittenFits, PullFits, IdleRun, IdleAsk, IdlePull
  <1>5. SnubsStand
    BY DEF SnubsStand, IdleRun
  <1>. QED BY <1>3, <1>4, <1>5 DEF Sound

LEMMA SoundSteps == Sound /\ [Next]_vars => Sound'
  <1>. SUFFICES ASSUME Sound, [Next]_vars
       PROVE  Sound'
    OBVIOUS
  <1>1. CASE Next
    <2>1. Moves /\ Snub
      BY <1>1, NextMoves
    <2>. QED BY <2>1, TypeStep, PlansStep, BackedStep, AsksStep, AppliedStep, WrittenStep,
                PullFitsStep, SnubsStep DEF Sound
  <1>2. CASE UNCHANGED vars
    BY <1>2 DEF vars, Sound, TypeOK, PlanBacked, Planning, BackedByOthers, HasOwnEvidence,
       AsksFit, AskFits, AppliedWasWritten, WrittenFits, PullFits, SnubsStand, Dismissed
  <1>. QED BY <1>1, <1>2

LEMMA SoundAlways == Spec => []Sound
  BY SoundAtFirst, SoundSteps, PTL DEF Spec

(***************************************************************************)
(* Every variable keeps its type, for any number of runs, requests and     *)
(* values, and the requests and the sync point at rows and changes that    *)
(* are there.                                                              *)
(***************************************************************************)
THEOREM TypesOK == Spec => []TypeOK
  <1>1. Sound => TypeOK
    BY DEF Sound
  <1>. QED BY <1>1, SoundAlways, PTL

(***************************************************************************)
(* Loop prevention: however runs, requests, people and syncs interleave,   *)
(* no value comes to be proposed, or written to the CRM, on the CRM's own  *)
(* word.                                                                   *)
(***************************************************************************)
THEOREM Backed == Spec => []BackedByOthers
  <1>1. Sound => BackedByOthers
    BY DEF Sound
  <1>. QED BY <1>1, SoundAlways, PTL

(***************************************************************************)
(* A row that says applied was written, with any number of requests        *)
(* deciding on it at once.                                                 *)
(***************************************************************************)
THEOREM Applied == Spec => []AppliedWasWritten
  <1>1. Sound => AppliedWasWritten
    BY DEF Sound
  <1>. QED BY <1>1, SoundAlways, PTL

(***************************************************************************)
(* A write replaces what its proposal was raised against, unless the       *)
(* record changed in the moment between the re-read and the write.         *)
(***************************************************************************)
THEOREM EditsSurvive == Spec => ClobberIsRaced
  <1>1. Sound => \A a \in Ask : Patch(a) => \/ crm.value = proposals[ask[a].row].current
                                            \/ crm.rev # ask[a].rev
    BY DEF Sound, AsksFit, AskFits, Patch
  <1>. QED BY <1>1, SoundAlways, PTL DEF ClobberIsRaced

(***************************************************************************)
(* A run never raises what was dismissed before it started and has stayed  *)
(* dismissed, whatever goes on beside it, unless the dismissed proposal is *)
(* over 90 days old or the look for it goes unanswered.                    *)
(***************************************************************************)
THEOREM NoNagging == Spec => NoNag
  <1>1. ASSUME Sound, Next, NEW r \in Run, Len(proposals') > Len(proposals), run'[r] # run[r],
               NEW i \in snubbed[r]
        PROVE  proposals[i].proposed # proposals'[Len(proposals')].proposed
    <2>1. Moves /\ TypeOK
      BY <1>1, NextMoves DEF Sound
    <2>2. RunMoves(r)
      BY <1>1, <2>1 DEF Moves, WorldMoves, RunMoves, AskMoved, AskMoves, PullMoves,
                        unchangedByAsk, unchangedByPull
    <2>3. /\ run[r].pc = "insert" /\ proposals' = Append(proposals, Planned(r))
          /\ HasOwnEvidence(run[r].plan.proposed)
      BY <1>1, <2>2, Stock DEF RunMoves, Sound, PlanBacked, Planning
    <2>4. proposals'[Len(proposals')] = Planned(r)
      BY <2>1, <2>3, Stock, PlannedType, InsertFacts
    <2>5. proposals[i].proposed # run[r].plan.proposed
      BY <1>1, <2>3 DEF Sound, SnubsStand
    <2>. QED BY <2>4, <2>5 DEF Planned
  <1>2. ASSUME Sound, [Next]_vars, NEW r \in Run, Len(proposals') > Len(proposals),
               run'[r] # run[r]
        PROVE  \A i \in snubbed[r] :
                 proposals[i].proposed # proposals'[Len(proposals')].proposed
    BY <1>1, <1>2 DEF vars
  <1>3. Sound /\ [Next]_vars =>
          \A r \in Run : Len(proposals') > Len(proposals) /\ run'[r] # run[r] =>
            \A i \in snubbed[r] :
              proposals[i].proposed # proposals'[Len(proposals')].proposed
    BY <1>2
  <1>. QED BY <1>3, SoundAlways, PTL DEF NoNag, Spec

(***************************************************************************)
(* What a sync skips as its own echo is a value Nous wrote into this       *)
(* field, whichever writes and syncs it overlaps with.                     *)
(***************************************************************************)
THEOREM MutesOwn == Spec => MutedWasWritten
  <1>1. Sound => (Consume => \E i \in wrote : proposals[i].proposed = pull.value)
    BY DEF Sound, PullFits, Consume
  <1>. QED BY <1>1, SoundAlways, PTL DEF MutedWasWritten

(***************************************************************************)
(* The cursor never passes the record as it stands before a sync has       *)
(* worked it through, whatever fails, is cut short or is edited meanwhile, *)
(* unless the record could not be stored and no error said so, or another  *)
(* kind was cut short at a later change.                                   *)
(***************************************************************************)
THEOREM CursorEarned == Spec => CursorIsEarned
  <1>1. ASSUME Sound, [Next]_vars, seen' # seen, seen' = crm.rev
        PROVE  \/ pull.got = crm.rev /\ pull.how \in {"heard", "lost"}
               \/ pull.cut = "others"
    <2>1. Moves
      BY <1>1, NextMoves DEF vars
    <2>. QED BY <1>1, <2>1 DEF Moves, WorldMoves, RunMoves, AskMoved, AskMoves, PullMoves,
                               unchangedByRun, unchangedByAsk
  <1>2. Sound /\ [Next]_vars =>
          (seen' # seen /\ seen' = crm.rev =>
             \/ pull.got = crm.rev /\ pull.how \in {"heard", "lost"}
             \/ pull.cut = "others")
    BY <1>1
  <1>. QED BY <1>2, SoundAlways, PTL DEF CursorIsEarned, Spec
=============================================================================
