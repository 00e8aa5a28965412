------------------------- MODULE ClaimEngineProofs -------------------------
(* What holds of the belief layer for every set of targets, values, stamps,
   settles and requests: the types, the stickiness of an assertion no recompute
   races, and the exact condition under which a claim may stay stale. *)
EXTENDS ClaimEngine, TLAPS

USE DEF Worker, Caller

-----------------------------------------------------------------------------
(* Calls *)

LEMMA IdleIsCall == Idle \in Call
  BY ConstantsAssumption DEF Idle, Call, Plan

(* A call just started has its targets, its jobs and nothing else. *)
LEMMA RecomputeFields ==
  ASSUME NEW pc \in {"idle", "count", "rows", "obs", "write", "fire", "done", "failed", "hide"},
         NEW T \in SUBSET Target, NEW ids \in SUBSET (Target \X Nat)
  PROVE  /\ Recompute(pc, T, ids) \in Call
         /\ Recompute(pc, T, ids).pc = pc
         /\ Recompute(pc, T, ids).targets = T
         /\ Recompute(pc, T, ids).ids = ids
  BY IdleIsCall DEF Recompute, Call, Idle

PC == {"idle", "count", "rows", "obs", "write", "fire", "done", "failed", "hide"}

LEMMA HiddenRow ==
  ASSUME NEW r \in Row  PROVE [r EXCEPT !.live = FALSE] \in Row
  BY DEF Row

(* The three shapes in which a step rewrites a call keep it a call. *)
LEMMA SetPc ==
  ASSUME NEW r \in Call, NEW q \in PC  PROVE [r EXCEPT !.pc = q] \in Call
  BY DEF Call, PC

LEMMA SetRows ==
  ASSUME NEW r \in Call, NEW q \in PC, NEW T \in SUBSET Target, NEW h \in SUBSET Target
  PROVE  [r EXCEPT !.pc = q, !.targets = T, !.wasHot = h] \in Call
  BY DEF Call, PC

LEMMA SetPlan ==
  ASSUME NEW r \in Call, NEW q \in PC, NEW T \in SUBSET Target, NEW p \in Plan, NEW n \in [Target -> Nat]
  PROVE  [r EXCEPT !.pc = q, !.targets = T, !.plan = p, !.read = n] \in Call
  BY DEF Call, PC

LEMMA RowsFields ==
  ASSUME NEW r \in Call, NEW q, NEW T, NEW h
  PROVE  LET x == [r EXCEPT !.pc = q, !.targets = T, !.wasHot = h] IN
           x.pc = q /\ x.targets = T /\ x.ids = r.ids
  BY DEF Call

LEMMA PlanFields ==
  ASSUME NEW r \in Call, NEW q, NEW T, NEW p, NEW n
  PROVE  LET x == [r EXCEPT !.pc = q, !.targets = T, !.plan = p, !.read = n] IN
           x.pc = q /\ x.targets = T /\ x.plan = p /\ x.read = n /\ x.ids = r.ids
  BY DEF Call

LEMMA IdleFields == Idle.pc = "idle" /\ Idle.targets = {} /\ Idle.ids = {}
  BY DEF Idle

-----------------------------------------------------------------------------
(* Types *)

LEMMA TypeInit == Init => TypeOK
  BY ConstantsAssumption, IdleIsCall DEF Init, TypeOK, Row, NoRow, Observation

LEMMA TypeInsert ==
  ASSUME TypeOK, NEW t \in Target, NEW at \in Time, NEW v \in Value \cup {NoValue}, Insert(t, at, v),
         call' \in [Caller -> Call]
  PROVE  TypeOK'
  <1>1. observations' \in [Target -> SUBSET Observation]
    BY DEF Insert, TypeOK, Observation
  <1>2. claim_jobs' \subseteq Target \X Nat /\ ver' \in [Target -> Nat]
    BY DEF Insert, TypeOK
  <1>. QED BY <1>1, <1>2 DEF Insert, TypeOK

LEMMA TypeCall ==
  ASSUME TypeOK, NEW c \in Caller, CallStep(c)
  PROVE  TypeOK'
  <1>1. CASE ReadRows(c)
    <2>. DEFINE T == Unpinned(call[c].targets)
                h == {t \in T : claims[t].live /\ claims[t].val \in Hot}
                q == IF T = {} THEN "done" ELSE "obs"
    <2>1. T \subseteq Target /\ h \subseteq Target /\ q \in {"done", "obs"}
      BY DEF TypeOK, Call, Unpinned
    <2>2. call' = [call EXCEPT ![c] = [@ EXCEPT !.pc = q, !.targets = T, !.wasHot = h]]
      BY <1>1 DEF ReadRows
    <2>3. covered' \in [Target -> Nat]
      BY <1>1 DEF ReadRows, TypeOK
    <2>. HIDE DEF T, h, q
    <2>4. [call[c] EXCEPT !.pc = q, !.targets = T, !.wasHot = h] \in Call
      BY <2>1, SetRows DEF TypeOK, PC
    <2>5. call' \in [Caller -> Call]
      BY <2>2, <2>4 DEF TypeOK
    <2>. QED BY <1>1, <2>3, <2>5 DEF ReadRows, TypeOK, queue
  <1>2. CASE ReadObservations(c)
    <2>1. PICK p \in [Target -> Value \cup {NoValue}] :
            LET T == {t \in call[c].targets : p[t] # NoValue} IN
              /\ call' = [call EXCEPT ![c] =
                   [@ EXCEPT !.pc = IF T = {} THEN "done" ELSE "write",
                             !.targets = T,
                             !.plan = p,
                             !.read = [t \in Target |-> IF t \in T THEN ver[t] ELSE 0]]]
              /\ covered' = [t \in Target |-> IF t \in call[c].targets \ T THEN ver[t] ELSE covered[t]]
      BY <1>2 DEF ReadObservations
    <2>. DEFINE T == {t \in call[c].targets : p[t] # NoValue}
                r == [t \in Target |-> IF t \in T THEN ver[t] ELSE 0]
                q == IF T = {} THEN "done" ELSE "write"
    <2>2. T \subseteq Target /\ r \in [Target -> Nat] /\ q \in {"done", "write"}
      BY DEF TypeOK, Call
    <2>3. call' = [call EXCEPT ![c] =
                   [@ EXCEPT !.pc = q, !.targets = T, !.plan = p, !.read = r]]
      BY <2>1
    <2>. HIDE DEF T, r, q
    <2>4. call' \in [Caller -> Call]
      <3>1. [call[c] EXCEPT !.pc = q, !.targets = T, !.plan = p, !.read = r] \in Call
        BY <2>2, SetPlan DEF TypeOK, PC, Plan
      <3>. QED BY <2>3, <3>1 DEF TypeOK
    <2>5. covered' \in [Target -> Nat]
      BY <2>1 DEF TypeOK
    <2>. QED BY <1>2, <2>4, <2>5 DEF ReadObservations, TypeOK, queue
  <1>3. CASE Write(c)
    <2>1. claims' \in [Target -> Row]
      <3>1. \A t \in Target : Upsert(claims[t], call[c].plan[t]) \in Row
        BY DEF TypeOK, Call, Plan, Upsert, Row
      <3>. QED BY <1>3, <3>1 DEF Write, TypeOK
    <2>2. call' \in [Caller -> Call]
      <3>1. [call[c] EXCEPT !.pc = "fire"] \in Call
        BY SetPc DEF TypeOK, PC
      <3>. QED BY <1>3, <3>1 DEF Write, TypeOK
    <2>3. covered' \in [Target -> Nat] /\ lost' \in [Target -> BOOLEAN] /\ unscored' \subseteq Target
      BY <1>3 DEF Write, TypeOK, Call
    <2>. QED BY <1>3, <2>1, <2>2, <2>3 DEF Write, TypeOK, queue
  <1>4. CASE Fire(c)
    <2>1. call' \in [Caller -> Call]
      <3>1. [call[c] EXCEPT !.pc = "done"] \in Call
        BY SetPc DEF TypeOK, PC
      <3>. QED BY <1>4, <3>1 DEF Fire, TypeOK
    <2>2. announced' \subseteq Target /\ faults' \in Nat /\ dropped' \subseteq Target
      BY <1>4 DEF Fire, TypeOK, Call, Transitions
    <2>. QED BY <1>4, <2>1, <2>2 DEF Fire, TypeOK, queue
  <1>5. CASE Fail(c)
    <2>1. call' \in [Caller -> Call]
      BY <1>5, IdleIsCall, RecomputeFields DEF Fail, TypeOK
    <2>2. lost' \in [Target -> BOOLEAN] /\ faults' \in Nat
      BY <1>5 DEF Fail, TypeOK, Healing
    <2>. QED BY <1>5, <2>1, <2>2 DEF Fail, TypeOK, queue
  <1>6. CASE ReadNoRows(c)
    <2>1. call' \in [Caller -> Call]
      <3>1. [call[c] EXCEPT !.pc = "obs"] \in Call
        BY SetPc DEF TypeOK, PC
      <3>. QED BY <1>6, <3>1 DEF ReadNoRows, TypeOK
    <2>2. blind' \subseteq Target /\ faults' \in Nat
      BY <1>6 DEF ReadNoRows, TypeOK, Call
    <2>. QED BY <1>6, <2>1, <2>2 DEF ReadNoRows, TypeOK, queue
  <1>. QED BY <1>1, <1>2, <1>3, <1>4, <1>5, <1>6 DEF CallStep

(* What a caller that dies leaves unannounced are targets. *)
LEMMA UnfiredTargets ==
  ASSUME TypeOK, NEW c \in Caller
  PROVE  Unfired(c) \subseteq Target
  BY DEF Unfired, Transitions, TypeOK, Call

LEMMA TypeEngine ==
  ASSUME TypeOK, EngineSweep \/ EngineFinish \/ EngineWrap \/ EngineCrash
  PROVE  TypeOK'
  <1>1. CASE EngineSweep
    <2>1. PICK B \in SUBSET claim_jobs :
            /\ engine' = [engine EXCEPT !.pc = "sweep", !.batch = B]
            /\ call' = [c \in Caller |->
                 IF c \in Target /\ (\E j \in B : j[1] = c) THEN Recompute("rows", {c}, {}) ELSE call[c]]
      BY <1>1 DEF EngineSweep
    <2>2. \A c \in Target : Recompute("rows", {c}, {}) \in Call
      BY RecomputeFields
    <2>3. call' \in [Caller -> Call]
      BY <2>1, <2>2 DEF TypeOK
    <2>4. engine' \in [pc : {"idle", "sweep", "drain", "wrap"}, batch : SUBSET (Target \X Nat),
                       owed : SUBSET Target]
      BY <2>1 DEF TypeOK
    <2>. QED BY <1>1, <2>3, <2>4 DEF EngineSweep, TypeOK, history
  <1>2. CASE EngineFinish
    <2>1. call' \in [Caller -> Call]
      BY <1>2, IdleIsCall DEF EngineFinish, TypeOK
    <2>2. claim_jobs' \subseteq claim_jobs /\ (faults' = faults \/ faults' = faults + 1)
      BY <1>2 DEF EngineFinish
    <2>3. engine' \in [pc : {"idle", "sweep", "drain", "wrap"}, batch : SUBSET (Target \X Nat),
                       owed : SUBSET Target]
      BY <1>2 DEF EngineFinish, TypeOK
    <2>. QED BY <1>2, <2>1, <2>2, <2>3 DEF EngineFinish, TypeOK, history
  <1>3. CASE EngineWrap
    BY <1>3 DEF EngineWrap, TypeOK, history
  <1>4. CASE EngineCrash
    <2>1. call' \in [Caller -> Call]
      BY <1>4, IdleIsCall DEF EngineCrash, TypeOK
    <2>2. dropped' \subseteq Target
      <3>1. engine.owed \subseteq Target
        BY DEF TypeOK
      <3>2. \A t \in Target : Unfired(t) \subseteq Target
        BY UnfiredTargets DEF Caller
      <3>. QED BY <1>4, <3>1, <3>2 DEF EngineCrash, TypeOK
    <2>. QED BY <1>4, <2>1, <2>2 DEF EngineCrash, TypeOK
  <1>. QED BY <1>1, <1>2, <1>3, <1>4

LEMMA TypeSettle ==
  ASSUME TypeOK, NEW w \in Settler, SettleStart(w) \/ SettleBatch(w)
  PROVE  TypeOK'
  <1>1. CASE SettleStart(w)
    BY <1>1 DEF SettleStart, TypeOK, history
  <1>2. CASE SettleBatch(w)
    <2>1. PICK T : LET ids == {j \in todo[w] \cap claim_jobs : j[1] \in T}
                       here == {j[1] : j \in ids}
                   IN /\ todo' = [todo EXCEPT ![w] = {j \in @ : j[1] \notin T}]
                      /\ call' = [call EXCEPT ![w] = IF here = {} THEN Idle ELSE Recompute("rows", here, ids)]
      BY <1>2 DEF SettleBatch
    <2>. DEFINE ids == {j \in todo[w] \cap claim_jobs : j[1] \in T}
                here == {j[1] : j \in ids}
    <2>2. ids \subseteq Target \X Nat /\ here \subseteq Target
      BY DEF TypeOK
    <2>3. todo' \in [Settler -> SUBSET (Target \X Nat)]
      BY <2>1 DEF TypeOK
    <2>. HIDE DEF here, ids
    <2>4. Recompute("rows", here, ids) \in Call
      BY <2>2, RecomputeFields
    <2>5. call' = [call EXCEPT ![w] = IF here = {} THEN Idle ELSE Recompute("rows", here, ids)]
      BY <2>1 DEF here, ids
    <2>6. call' \in [Caller -> Call]
      BY <2>4, <2>5, IdleIsCall DEF TypeOK
    <2>. QED BY <1>2, <2>3, <2>6 DEF SettleBatch, TypeOK, history
  <1>. QED BY <1>1, <1>2

LEMMA TypeRetract ==
  ASSUME TypeOK, NEW w \in Retractor,
         (\E t \in Target : RetractDelete(w, t)) \/ RetractCount(w) \/ RetractNoCount(w) \/ RetractHide(w)
  PROVE  TypeOK'
  <1>1. ASSUME NEW t \in Target, RetractDelete(w, t)  PROVE TypeOK'
    <2>1. call' \in [Caller -> Call]
      BY <1>1, RecomputeFields DEF RetractDelete, TypeOK
    <2>2. observations' \in [Target -> SUBSET Observation] /\ ver' \in [Target -> Nat]
      BY <1>1 DEF RetractDelete, TypeOK
    <2>. QED BY <1>1, <2>1, <2>2 DEF RetractDelete, TypeOK, queue
  <1>2. CASE RetractCount(w)
    <2>1. \A left \in BOOLEAN : [call[w] EXCEPT !.pc = AfterCount(left)] \in Call
      BY SetPc DEF TypeOK, PC, AfterCount
    <2>2. call' \in [Caller -> Call]
      BY <1>2, <2>1 DEF RetractCount, TypeOK
    <2>3. covered' \in [Target -> Nat]
      BY <1>2 DEF RetractCount, TypeOK
    <2>. QED BY <1>2, <2>2, <2>3 DEF RetractCount, TypeOK, queue
  <1>3. CASE RetractHide(w)
    <2>1. call' \in [Caller -> Call]
      BY <1>3, IdleIsCall DEF RetractHide, TypeOK
    <2>2. claims' \in [Target -> Row]
      <3>1. \A t \in Target : [claims[t] EXCEPT !.live = FALSE] \in Row
        BY HiddenRow DEF TypeOK
      <3>. QED BY <1>3, <3>1 DEF RetractHide, TypeOK
    <2>3. fixed' \in [Target -> Value \cup {NoValue}] /\ faults' \in Nat
      BY <1>3 DEF RetractHide, TypeOK
    <2>. QED BY <1>3, <2>1, <2>2, <2>3 DEF RetractHide, TypeOK, queue
  <1>4. CASE RetractNoCount(w)
    <2>1. call' \in [Caller -> Call]
      <3>1. [call[w] EXCEPT !.pc = AfterCount(FALSE)] \in Call
        BY SetPc DEF TypeOK, PC, AfterCount
      <3>. QED BY <1>4, <3>1 DEF RetractNoCount, TypeOK
    <2>2. lost' \in [Target -> BOOLEAN] /\ faults' \in Nat
      BY <1>4 DEF RetractNoCount, TypeOK, Healing
    <2>. QED BY <1>4, <2>1, <2>2 DEF RetractNoCount, TypeOK, queue
  <1>. QED BY <1>1, <1>2, <1>3, <1>4

LEMMA TypeWorker ==
  ASSUME TypeOK, NEW w \in Worker, Finish(w) \/ Crash(w)
  PROVE  TypeOK'
  <1>1. call' \in [Caller -> Call]
    BY IdleIsCall DEF Finish, Crash, TypeOK
  <1>2. CASE Finish(w)
    BY <1>1, <1>2 DEF Finish, TypeOK, history
  <1>3. CASE Crash(w)
    <2>1. todo' \in [Settler -> SUBSET (Target \X Nat)] /\ lost' \in [Target -> BOOLEAN] /\ faults' \in Nat
      BY <1>3 DEF Crash, TypeOK, Healing
    <2>2. dropped' \subseteq Target
      BY <1>3, UnfiredTargets DEF Crash, TypeOK, Caller
    <2>. QED BY <1>1, <1>3, <2>1, <2>2 DEF Crash, TypeOK
  <1>. QED BY <1>2, <1>3

LEMMA TypeUser ==
  ASSUME TypeOK, NEW t \in Target, Clear(t) \/ \E v \in Value : Assert(t, v)
  PROVE  TypeOK'
  <1>1. CASE Clear(t)
    <2>1. [claims[t] EXCEPT !.live = FALSE] \in Row
      BY HiddenRow DEF TypeOK
    <2>2. claims' \in [Target -> Row]
      BY <1>1, <2>1 DEF Clear, TypeOK
    <2>. QED BY <1>1, <2>2 DEF Clear, TypeOK, queue
  <1>2. ASSUME NEW v \in Value, Assert(t, v)  PROVE TypeOK'
    BY <1>2 DEF Assert, TypeOK, Row, queue
  <1>. QED BY <1>1, <1>2

LEMMA TypeIngest ==
  ASSUME TypeOK, NEW t \in Target, Observe(t) \/ \E w \in Recorder : Record(w, t)
  PROVE  TypeOK'
  <1>1. PICK at \in Time, v \in Value \cup {NoValue} : Insert(t, at, v)
    BY ConstantsAssumption DEF Observe, Record
  <1>2. call' \in [Caller -> Call]
    BY RecomputeFields DEF Observe, Record, InlineRecompute, TypeOK
  <1>. QED BY <1>1, <1>2, TypeInsert

LEMMA TypeStep == TypeOK /\ [Next]_vars => TypeOK'
  <1>. SUFFICES ASSUME TypeOK, [Next]_vars  PROVE TypeOK'
    OBVIOUS
  <1>1. CASE UNCHANGED vars
    BY <1>1 DEF vars, TypeOK
  <1>2. CASE Next
    BY <1>2, TypeCall, TypeEngine, TypeSettle, TypeRetract, TypeWorker, TypeUser, TypeIngest DEF Next
  <1>. QED BY <1>1, <1>2

(* The tables, the calls in flight and the history are well typed in every
   reachable state, for every set of targets, values and callers. *)
THEOREM TypeCorrect == Spec => []TypeOK
  BY TypeInit, TypeStep, PTL DEF Spec

-----------------------------------------------------------------------------
(* Assertions *)

(* Why an assertion holds: no recompute is past its read of a protected row. *)
Protected(t) == fixed[t] # NoValue /\ t \notin blind
NoRace == \A t \in Target : Protected(t) => \A c \in Caller : ~PastRead(c, t)

AInv == TypeOK /\ AssertionHolds /\ NoRace

LEMMA AssertedIsSticky ==
  \A v : Sticky([val |-> v, cls |-> "asserted", live |-> TRUE])
  BY DEF Sticky

(* A step that starts no race and touches no protected row keeps the invariant. *)
LEMMA CalmStep ==
  ASSUME AInv, fixed' = fixed, blind \subseteq blind',
         \A c \in Caller, t \in Target : PastRead(c, t)' => PastRead(c, t) \/ ~Protected(t)',
         \A t \in Target : Protected(t) => claims'[t] = claims[t]
  PROVE  AssertionHolds' /\ NoRace'
  <1>1. \A t \in Target : Protected(t)' => Protected(t)
    BY DEF Protected
  <1>2. NoRace'
    BY <1>1 DEF AInv, NoRace
  <1>3. AssertionHolds'
    BY <1>1 DEF AInv, AssertionHolds, Protected
  <1>. QED BY <1>2, <1>3

LEMMA CallKeepsAssertions ==
  ASSUME AInv, NEW c \in Caller, CallStep(c)
  PROVE  AssertionHolds' /\ NoRace'
  <1>. USE DEF AInv
  <1>1. CASE ReadRows(c)
    <2>1. call'[c].targets = Unpinned(call[c].targets)
          /\ \A d \in Caller : d # c => call'[d] = call[d]
      BY <1>1 DEF ReadRows, TypeOK, Call
    <2>2. \A t \in Target : PastRead(c, t)' => ~Protected(t)
      BY <2>1 DEF PastRead, Unpinned, AssertionHolds, Protected
    <2>3. fixed' = fixed /\ blind' = blind /\ claims' = claims
      BY <1>1 DEF ReadRows
    <2>4. \A d \in Caller, t \in Target : PastRead(d, t)' => PastRead(d, t) \/ ~Protected(t)'
      BY <2>1, <2>2, <2>3 DEF PastRead, Protected
    <2>. QED BY <2>3, <2>4, CalmStep
  <1>2. CASE ReadObservations(c)
    <2>1. call'[c].targets \subseteq call[c].targets /\ call[c].pc = "obs"
          /\ \A d \in Caller : d # c => call'[d] = call[d]
      BY <1>2 DEF ReadObservations, TypeOK, Call
    <2>2. \A d \in Caller, t \in Target : PastRead(d, t)' => PastRead(d, t)
      BY <2>1 DEF PastRead
    <2>. QED BY <1>2, <2>2, CalmStep DEF ReadObservations
  <1>3. CASE Write(c)
    <2>1. call'[c].pc = "fire" /\ \A d \in Caller : d # c => call'[d] = call[d]
      BY <1>3 DEF Write, TypeOK, Call
    <2>2. \A d \in Caller, t \in Target : PastRead(d, t)' => PastRead(d, t)
      BY <2>1 DEF PastRead
    <2>3. \A t \in call[c].targets : ~Protected(t)
      BY <1>3 DEF Write, NoRace, PastRead, TypeOK, Call
    <2>4. \A t \in Target : Protected(t) => claims'[t] = claims[t]
      BY <1>3, <2>3 DEF Write
    <2>. QED BY <1>3, <2>2, <2>4, CalmStep DEF Write
  <1>4. CASE Fire(c)
    <2>1. call'[c].pc = "done" /\ \A d \in Caller : d # c => call'[d] = call[d]
      BY <1>4 DEF Fire, TypeOK, Call
    <2>2. \A d \in Caller, t \in Target : PastRead(d, t)' => PastRead(d, t)
      BY <2>1 DEF PastRead
    <2>. QED BY <1>4, <2>2, CalmStep DEF Fire, history
  <1>5. CASE Fail(c)
    <2>1. call'[c].pc \in {"failed", "idle"} /\ \A d \in Caller : d # c => call'[d] = call[d]
      BY <1>5, IdleFields, RecomputeFields DEF Fail, TypeOK
    <2>2. \A d \in Caller, t \in Target : PastRead(d, t)' => PastRead(d, t)
      BY <2>1 DEF PastRead
    <2>. QED BY <1>5, <2>2, CalmStep DEF Fail
  <1>6. CASE ReadNoRows(c)
    <2>1. call'[c].targets = call[c].targets
          /\ \A d \in Caller : d # c => call'[d] = call[d]
      BY <1>6 DEF ReadNoRows, TypeOK, Call
    <2>2. fixed' = fixed /\ blind' = blind \cup call[c].targets /\ claims' = claims
      BY <1>6 DEF ReadNoRows
    <2>3. \A d \in Caller, t \in Target : PastRead(d, t)' => PastRead(d, t) \/ ~Protected(t)'
      BY <2>1, <2>2 DEF PastRead, Protected
    <2>. QED BY <2>2, <2>3, CalmStep
  <1>. QED BY <1>1, <1>2, <1>3, <1>4, <1>5, <1>6 DEF CallStep

(* Every step that only starts or ends calls. *)
LEMMA OtherCallsKeepAssertions ==
  ASSUME AInv, claims' = claims, fixed' = fixed, blind' = blind,
         \A c \in Caller : call'[c] = call[c] \/ call'[c].pc \notin {"obs", "write"}
  PROVE  AssertionHolds' /\ NoRace'
  <1>1. \A c \in Caller, t \in Target : PastRead(c, t)' => PastRead(c, t)
    BY DEF PastRead
  <1>. QED BY <1>1, CalmStep

LEMMA AssertionStep == AInv /\ [Next]_vars => AInv'
  <1>. SUFFICES ASSUME AInv, [Next]_vars  PROVE AssertionHolds' /\ NoRace'
    BY TypeStep DEF AInv
  <1>. USE DEF AInv
  <1>1. CASE UNCHANGED vars
    BY <1>1 DEF vars, AssertionHolds, NoRace, Protected, PastRead
  <1>2. ASSUME NEW c \in Caller, CallStep(c)  PROVE AssertionHolds' /\ NoRace'
    BY <1>2, CallKeepsAssertions
  <1>3. ASSUME NEW t \in Target, Observe(t)  PROVE AssertionHolds' /\ NoRace'
    BY <1>3, OtherCallsKeepAssertions DEF Observe, Insert
  <1>4. ASSUME NEW t \in Target, NEW w \in Recorder, Record(w, t)  PROVE AssertionHolds' /\ NoRace'
    BY <1>4, OtherCallsKeepAssertions, RecomputeFields DEF Record, Insert, InlineRecompute, TypeOK
  <1>5. ASSUME NEW t \in Target, Clear(t)  PROVE AssertionHolds' /\ NoRace'
    BY <1>5 DEF Clear, AssertionHolds, NoRace, Protected, PastRead, TypeOK
  <1>6. ASSUME NEW t \in Target, NEW v \in Value, Assert(t, v)  PROVE AssertionHolds' /\ NoRace'
    <2>1. AssertionHolds'
      <3>. DEFINE row == [val |-> v, cls |-> "asserted", live |-> TRUE]
      <3>1. Sticky(row) /\ row.val = v
        BY AssertedIsSticky
      <3>. HIDE DEF row
      <3>2. claims' = [claims EXCEPT ![t] = row] /\ (fixed'[t] \in {v, NoValue})
            /\ \A u \in Target : u # t => fixed'[u] = fixed[u] /\ (u \in blind' <=> u \in blind)
        BY <1>6 DEF Assert, TypeOK, row
      <3>. QED BY <3>1, <3>2 DEF AssertionHolds, TypeOK
    <2>2. NoRace'
      BY <1>6 DEF Assert, NoRace, Protected, PastRead, TypeOK
    <2>. QED BY <2>1, <2>2
  <1>7. CASE EngineSweep
    BY <1>7, OtherCallsKeepAssertions, RecomputeFields DEF EngineSweep, history
  <1>8. CASE EngineFinish \/ EngineWrap \/ EngineCrash
    BY <1>8, OtherCallsKeepAssertions, IdleFields DEF EngineFinish, EngineWrap, EngineCrash, history
  <1>9. ASSUME NEW w \in Settler, SettleStart(w)  PROVE AssertionHolds' /\ NoRace'
    BY <1>9, OtherCallsKeepAssertions DEF SettleStart, history
  <1>10. ASSUME NEW w \in Settler, SettleBatch(w)  PROVE AssertionHolds' /\ NoRace'
    <2>1. PICK T, J : call' = [call EXCEPT ![w] = IF T = {} THEN Idle ELSE Recompute("rows", T, J)]
      BY <1>10 DEF SettleBatch
    <2>2. Recompute("rows", T, J).pc = "rows"
      BY DEF Recompute, Idle
    <2>3. \A c \in Caller : call'[c] = call[c] \/ call'[c].pc \notin {"obs", "write"}
      BY <2>1, <2>2, IdleFields DEF TypeOK
    <2>. QED BY <1>10, <2>3, OtherCallsKeepAssertions DEF SettleBatch, history
  <1>11. ASSUME NEW w \in Worker, Finish(w) \/ Crash(w)  PROVE AssertionHolds' /\ NoRace'
    BY <1>11, OtherCallsKeepAssertions, IdleFields DEF Finish, Crash, history, TypeOK
  <1>12. ASSUME NEW w \in Retractor, NEW t \in Target, RetractDelete(w, t)
         PROVE  AssertionHolds' /\ NoRace'
    BY <1>12, OtherCallsKeepAssertions, RecomputeFields DEF RetractDelete, TypeOK
  <1>13. ASSUME NEW w \in Retractor, RetractCount(w)  PROVE AssertionHolds' /\ NoRace'
    BY <1>13, OtherCallsKeepAssertions DEF RetractCount, AfterCount, TypeOK, Call
  <1>14. ASSUME NEW w \in Retractor, RetractHide(w)  PROVE AssertionHolds' /\ NoRace'
    <2>1. call'[w] = Idle /\ blind' = blind /\ \A d \in Caller : d # w => call'[d] = call[d]
      BY <1>14 DEF RetractHide, TypeOK
    <2>2. \A t \in Target : fixed'[t] # NoValue => fixed'[t] = fixed[t] /\ claims'[t] = claims[t]
      BY <1>14 DEF RetractHide
    <2>3. \A d \in Caller, t \in Target : PastRead(d, t)' => PastRead(d, t)
      BY <2>1, IdleFields DEF PastRead
    <2>. QED BY <2>1, <2>2, <2>3 DEF AssertionHolds, NoRace, Protected
  <1>15. ASSUME NEW w \in Retractor, RetractNoCount(w)  PROVE AssertionHolds' /\ NoRace'
    BY <1>15, OtherCallsKeepAssertions DEF RetractNoCount, AfterCount, TypeOK, Call
  <1>. QED BY <1>1, <1>2, <1>3, <1>4, <1>5, <1>6, <1>7, <1>8, <1>9, <1>10, <1>11, <1>12, <1>13, <1>14, <1>15
       DEF Next

(* recomputeClaim's sticky check works against every recompute that starts
   after the assertion: a value set while no recompute of its row is past the
   check stays as it was set, with any number of settles and requests. *)
THEOREM AssertionsHold == Spec => []AssertionHolds
  <1>1. Init => AInv
    BY TypeInit DEF Init, AInv, AssertionHolds, NoRace, Protected
  <1>2. AInv => AssertionHolds
    BY DEF AInv
  <1>. QED BY <1>1, <1>2, AssertionStep, PTL DEF Spec

-----------------------------------------------------------------------------
(* Freshness *)

(* The jobs a caller will delete when it succeeds. *)
Held(c) == IF c \in Target THEN {j \in engine.batch : j[1] = c} ELSE call[c].ids

(* A held job's change has been read by a finished recompute, or this caller is
   going to read it, or has read it and is going to write. *)
Accounted(c, j) ==
  \/ call[c].pc = "failed"
  \/ j[2] <= covered[j[1]]
  \/ call[c].pc \in {"rows", "obs"} /\ j[1] \in call[c].targets
  \/ call[c].pc = "write" /\ j[1] \in call[c].targets /\ j[2] <= call[c].read[j[1]]

Bounded ==
  /\ \A t \in Target : covered[t] <= ver[t]
  /\ \A j \in claim_jobs : j[2] <= ver[j[1]]
  /\ \A w \in Settler : \A j \in todo[w] : j[2] <= ver[j[1]]
  /\ engine.pc # "sweep" => engine.batch = {}
  /\ \A w \in Retractor : call[w].ids = {}
  /\ \A c \in Caller : call[c].pc = "idle" => call[c] = Idle

Planned ==
  \A c \in Caller : call[c].pc = "write" =>
    \A t \in call[c].targets :
      /\ call[c].read[t] <= ver[t]
      /\ call[c].read[t] = ver[t] => call[c].plan[t] \in Winners(observations[t])

HeldJobs == \A c \in Caller : \A j \in Held(c) : j[2] <= ver[j[1]] /\ Accounted(c, j)

Fresh == \A t \in Target : ~lost[t] /\ covered[t] = ver[t] => Settled(t)

(* A retraction that will bring the claim up to the latest change. *)
Heals(w, t) == Healing(w, t) /\ (call[w].pc = "write" => call[w].read[t] = ver[t])

Owed ==
  \A t \in Target : ~lost[t] /\ covered[t] < ver[t] =>
    <<t, ver[t]>> \in claim_jobs \/ \E w \in Retractor : Heals(w, t)

FInv == TypeOK /\ Bounded /\ Planned /\ HeldJobs /\ Fresh /\ Owed

LEMMA HeldIsJobs ==
  ASSUME TypeOK, NEW c \in Caller  PROVE Held(c) \subseteq Target \X Nat
  BY DEF TypeOK, Held, Call

(* A job held by a caller that does not move stays accounted for. *)
LEMMA HeldByOther ==
  ASSUME FInv, TypeOK', NEW d \in Caller, engine' = engine, call'[d] = call[d],
         \A t \in Target : ver[t] <= ver'[t] /\ covered[t] <= covered'[t]
  PROVE  \A j \in Held(d)' : j[2] <= ver'[j[1]] /\ Accounted(d, j)'
  <1>1. Held(d)' = Held(d) /\ Held(d) \subseteq Target \X Nat
    BY HeldIsJobs DEF Held, FInv
  <1>2. SUFFICES ASSUME NEW j \in Held(d)
                 PROVE  j[2] <= ver'[j[1]] /\ Accounted(d, j)'
    BY <1>1
  <1>3. j[1] \in Target /\ j[2] \in Nat /\ j[2] <= ver[j[1]] /\ Accounted(d, j)
    BY <1>1 DEF FInv, HeldJobs
  <1>4. /\ ver[j[1]] \in Nat /\ ver'[j[1]] \in Nat /\ covered[j[1]] \in Nat /\ covered'[j[1]] \in Nat
        /\ ver[j[1]] <= ver'[j[1]] /\ covered[j[1]] <= covered'[j[1]]
    BY <1>3 DEF FInv, TypeOK
  <1>. QED BY <1>3, <1>4 DEF Accounted

(* A retraction that does not move heals what it healed. *)
LEMMA HealsByOther ==
  ASSUME NEW w \in Retractor, NEW t \in Target, Heals(w, t), call'[w] = call[w], ver'[t] = ver[t]
  PROVE  Heals(w, t)'
  BY DEF Heals, Healing

(* A step of call c that neither fails nor touches the queue, the log or the
   engine.  What is left to show is about c and the targets it moved. *)
LEMMA QuietStep ==
  ASSUME FInv, TypeOK', NEW c \in Caller,
         \A d \in Caller : d # c => call'[d] = call[d],
         UNCHANGED <<observations, claim_jobs, engine, todo, ver>>,
         \A t \in Target : covered[t] <= covered'[t] /\ covered'[t] <= ver[t],
         \A t \in Target : lost[t] => lost'[t],
         call'[c].ids = call[c].ids, call'[c].pc # "idle",
         call'[c].pc = "write" =>
            \A t \in call'[c].targets :
              /\ call'[c].read[t] <= ver[t]
              /\ call'[c].read[t] = ver[t] => call'[c].plan[t] \in Winners(observations[t]),
         \A j \in Held(c) : Accounted(c, j)',
         \A t \in Target : ~lost'[t] /\ covered'[t] = ver[t] => Settled(t)',
         \A t \in Target : Heals(c, t) /\ c \in Retractor /\ ~lost'[t] =>
            Heals(c, t)' \/ covered'[t] = ver[t]
  PROVE  Bounded' /\ Planned' /\ HeldJobs' /\ Fresh' /\ Owed'
  <1>1. Bounded'
    BY DEF FInv, Bounded
  <1>2. Planned'
    BY DEF FInv, Planned
  <1>3. HeldJobs'
    <2>1. Held(c)' = Held(c)
      BY DEF Held
    <2>2. \A j \in Held(c)' : j[2] <= ver'[j[1]] /\ Accounted(c, j)'
      BY <2>1 DEF FInv, HeldJobs
    <2>3. \A t \in Target : ver[t] <= ver'[t]
      BY DEF FInv, TypeOK
    <2>4. \A d \in Caller : d # c => \A j \in Held(d)' : j[2] <= ver'[j[1]] /\ Accounted(d, j)'
      BY <2>3, HeldByOther
    <2>. QED BY <2>2, <2>4 DEF HeldJobs
  <1>4. Fresh'
    BY DEF Fresh
  <1>5. Owed'
    <2>1. SUFFICES ASSUME NEW t \in Target, ~lost'[t], covered'[t] < ver[t]
                   PROVE  <<t, ver[t]>> \in claim_jobs \/ \E w \in Retractor : Heals(w, t)'
      BY DEF Owed
    <2>2. ~lost[t] /\ covered[t] < ver[t] /\ covered'[t] # ver[t]
      BY <2>1 DEF FInv, TypeOK
    <2>3. CASE <<t, ver[t]>> \in claim_jobs
      BY <2>3
    <2>4. ASSUME NEW w \in Retractor, Heals(w, t)  PROVE Heals(w, t)'
      BY <2>1, <2>2, <2>4, HealsByOther
    <2>. QED BY <2>2, <2>3, <2>4 DEF FInv, Owed
  <1>. QED BY <1>1, <1>2, <1>3, <1>4, <1>5

LEMMA NothingToDerive ==
  ASSUME TypeOK, NEW t \in Target, NoValue \in Derive(observations[t])
  PROVE  Stated(observations[t]) = {}
  BY DEF Derive, Winners, Newest, Stated

LEMMA FreshReadRows ==
  ASSUME FInv, TypeOK', NEW c \in Caller, ReadRows(c)
  PROVE  Bounded' /\ Planned' /\ HeldJobs' /\ Fresh' /\ Owed'
  <1>. DEFINE T == Unpinned(call[c].targets)
  <1>1. /\ call[c].pc = "rows"
        /\ call'[c].targets = T
        /\ call'[c].ids = call[c].ids
        /\ call'[c].pc = IF T = {} THEN "done" ELSE "obs"
        /\ \A d \in Caller : d # c => call'[d] = call[d]
    <2>. DEFINE h == {t \in T : claims[t].live /\ claims[t].val \in Hot}
                q == IF T = {} THEN "done" ELSE "obs"
    <2>1. call[c] \in Call /\ call \in [Caller -> Call] /\ call[c].pc = "rows"
      BY DEF ReadRows, FInv, TypeOK
    <2>2. call' = [call EXCEPT ![c] = [@ EXCEPT !.pc = q, !.targets = T, !.wasHot = h]]
      BY DEF ReadRows
    <2>. HIDE DEF T, h
    <2>. QED BY <2>1, <2>2, RowsFields
  <1>2. /\ \A t \in call[c].targets \ T : covered'[t] = ver[t] /\ claims[t].cls = "asserted"
        /\ \A t \in Target : t \notin call[c].targets \ T => covered'[t] = covered[t]
    BY DEF ReadRows, FInv, TypeOK, Call, Unpinned, Sticky
  <1>3. UNCHANGED <<observations, claims, claim_jobs, engine, todo, ver, lost>>
    BY DEF ReadRows, queue
  <1>4. \A t \in Target : covered[t] <= covered'[t] /\ covered'[t] <= ver[t]
    BY <1>2 DEF FInv, Bounded, TypeOK
  <1>5. \A j \in Held(c) : Accounted(c, j)'
    <2>1. SUFFICES ASSUME NEW j \in Held(c)  PROVE Accounted(c, j)'
      OBVIOUS
    <2>2. /\ j[1] \in Target /\ j[2] \in Nat /\ j[2] <= ver[j[1]]
          /\ j[2] <= covered[j[1]] \/ j[1] \in call[c].targets
      BY <1>1, HeldIsJobs DEF FInv, HeldJobs, Accounted
    <2>3. CASE j[1] \in T
      BY <1>1, <2>3 DEF Accounted
    <2>4. CASE j[1] \in call[c].targets \ T
      BY <1>2, <2>2, <2>4 DEF Accounted
    <2>5. CASE j[2] <= covered[j[1]]
      <3>1. covered[j[1]] \in Nat /\ covered'[j[1]] \in Nat
        BY <2>2 DEF FInv, TypeOK
      <3>. QED BY <1>4, <2>2, <2>5, <3>1 DEF Accounted
    <2>. QED BY <2>2, <2>3, <2>4, <2>5
  <1>6. \A t \in Target : ~lost'[t] /\ covered'[t] = ver[t] => Settled(t)'
    BY <1>2, <1>3 DEF FInv, Fresh, Settled
  <1>7. \A t \in Target : Heals(c, t) /\ c \in Retractor /\ ~lost'[t] =>
            Heals(c, t)' \/ covered'[t] = ver[t]
    BY <1>1, <1>2 DEF Heals, Healing
  <1>. QED BY <1>1, <1>3, <1>4, <1>5, <1>6, <1>7, QuietStep

LEMMA FreshReadNoRows ==
  ASSUME FInv, TypeOK', NEW c \in Caller, ReadNoRows(c)
  PROVE  Bounded' /\ Planned' /\ HeldJobs' /\ Fresh' /\ Owed'
  <1>1. /\ call[c].pc = "rows" /\ call'[c].pc = "obs"
        /\ call'[c].ids = call[c].ids /\ call'[c].targets = call[c].targets
        /\ \A d \in Caller : d # c => call'[d] = call[d]
    BY DEF ReadNoRows, FInv, TypeOK, Call
  <1>2. UNCHANGED <<observations, claims, claim_jobs, engine, todo, ver, covered, lost>>
    BY DEF ReadNoRows, queue
  <1>3. \A t \in Target : covered[t] <= covered'[t] /\ covered'[t] <= ver[t]
    BY <1>2 DEF FInv, TypeOK, Bounded
  <1>4. \A j \in Held(c) : Accounted(c, j)'
    BY <1>1, <1>2 DEF FInv, HeldJobs, Accounted
  <1>5. \A t \in Target : ~lost'[t] /\ covered'[t] = ver[t] => Settled(t)'
    BY <1>2 DEF FInv, Fresh, Settled
  <1>6. \A t \in Target : Heals(c, t) => Heals(c, t)'
    BY <1>1 DEF Heals, Healing
  <1>. QED BY <1>1, <1>2, <1>3, <1>4, <1>5, <1>6, QuietStep

LEMMA FreshReadObservations ==
  ASSUME FInv, TypeOK', NEW c \in Caller, ReadObservations(c)
  PROVE  Bounded' /\ Planned' /\ HeldJobs' /\ Fresh' /\ Owed'
  <1>0. PICK p \in [Target -> Value \cup {NoValue}] :
          LET S == {t \in call[c].targets : p[t] # NoValue} IN
            /\ \A t \in Target : p[t] \in IF t \in call[c].targets THEN Derive(observations[t]) ELSE {NoValue}
            /\ call' = [call EXCEPT ![c] =
                 [@ EXCEPT !.pc = IF S = {} THEN "done" ELSE "write",
                           !.targets = S, !.plan = p,
                           !.read = [t \in Target |-> IF t \in S THEN ver[t] ELSE 0]]]
            /\ covered' = [t \in Target |-> IF t \in call[c].targets \ S THEN ver[t] ELSE covered[t]]
    BY DEF ReadObservations
  <1>. DEFINE T == {t \in call[c].targets : p[t] # NoValue}
  <1>1. /\ call[c].pc = "obs"
        /\ T \subseteq call[c].targets
        /\ call[c].targets \subseteq Target
        /\ call'[c].targets = T
        /\ call'[c].plan = p
        /\ call'[c].ids = call[c].ids
        /\ call'[c].pc = IF T = {} THEN "done" ELSE "write"
        /\ \A t \in T : call'[c].read[t] = ver[t]
        /\ \A d \in Caller : d # c => call'[d] = call[d]
    <2>. DEFINE n == [t \in Target |-> IF t \in T THEN ver[t] ELSE 0]
                q == IF T = {} THEN "done" ELSE "write"
    <2>1. /\ call[c] \in Call /\ call \in [Caller -> Call] /\ call[c].pc = "obs"
          /\ T \subseteq call[c].targets /\ call[c].targets \subseteq Target
      BY DEF ReadObservations, FInv, TypeOK, Call
    <2>2. call' = [call EXCEPT ![c] = [@ EXCEPT !.pc = q, !.targets = T, !.plan = p, !.read = n]]
      BY <1>0
    <2>3. \A t \in T : n[t] = ver[t]
      BY <2>1
    <2>. HIDE DEF T, n
    <2>. QED BY <2>1, <2>2, <2>3, PlanFields
  <1>2. /\ \A t \in call[c].targets \ T : covered'[t] = ver[t] /\ NoValue \in Derive(observations[t])
        /\ \A t \in Target : t \notin call[c].targets \ T => covered'[t] = covered[t]
        /\ \A t \in T : p[t] \in Derive(observations[t]) /\ p[t] # NoValue
    BY <1>0, <1>1
  <1>3. UNCHANGED <<observations, claims, claim_jobs, engine, todo, ver, lost>>
    BY DEF ReadObservations, queue
  <1>. HIDE DEF T
  <1>4. \A t \in Target : covered[t] <= covered'[t] /\ covered'[t] <= ver[t]
    BY <1>2 DEF FInv, Bounded, TypeOK
  <1>5. \A t \in T : /\ t \in Target
                     /\ call'[c].read[t] <= ver[t]
                     /\ call'[c].plan[t] \in Winners(observations[t])
    <2>1. SUFFICES ASSUME NEW t \in T
                   PROVE  ver[t] <= ver[t] /\ p[t] \in Winners(observations[t])
      BY <1>1
    <2>2. ver[t] \in Nat
      BY <1>1 DEF FInv, TypeOK
    <2>3. p[t] \in Winners(observations[t])
      BY <1>2 DEF Derive
    <2>. QED BY <2>2, <2>3
  <1>6. \A j \in Held(c) : Accounted(c, j)'
    <2>1. SUFFICES ASSUME NEW j \in Held(c)  PROVE Accounted(c, j)'
      OBVIOUS
    <2>2. /\ j[1] \in Target /\ j[2] \in Nat /\ j[2] <= ver[j[1]]
          /\ j[2] <= covered[j[1]] \/ j[1] \in call[c].targets
      BY <1>1, HeldIsJobs DEF FInv, HeldJobs, Accounted
    <2>3. CASE j[1] \in T
      BY <1>1, <2>2, <2>3 DEF Accounted
    <2>4. CASE j[1] \in call[c].targets \ T
      BY <1>2, <2>2, <2>4 DEF Accounted
    <2>5. CASE j[2] <= covered[j[1]]
      <3>1. covered[j[1]] \in Nat /\ covered'[j[1]] \in Nat
        BY <2>2 DEF FInv, TypeOK
      <3>. QED BY <1>4, <2>2, <2>5, <3>1 DEF Accounted
    <2>. QED BY <2>2, <2>3, <2>4, <2>5
  <1>7. \A t \in Target : ~lost'[t] /\ covered'[t] = ver[t] => Settled(t)'
    <2>1. \A t \in call[c].targets \ T : t \in Target /\ Stated(observations[t]) = {}
      BY <1>2, NothingToDerive DEF FInv, TypeOK, Call
    <2>. QED BY <1>2, <1>3, <2>1 DEF FInv, Fresh, Settled
  <1>8. \A t \in Target : Heals(c, t) /\ c \in Retractor /\ ~lost'[t] =>
            Heals(c, t)' \/ covered'[t] = ver[t]
    BY <1>1, <1>2, <1>3 DEF Heals, Healing
  <1>. QED BY <1>1, <1>3, <1>4, <1>5, <1>6, <1>7, <1>8, QuietStep

LEMMA FreshWrite ==
  ASSUME FInv, TypeOK', NEW c \in Caller, Write(c)
  PROVE  Bounded' /\ Planned' /\ HeldJobs' /\ Fresh' /\ Owed'
  <1>. DEFINE T == call[c].targets
              read == call[c].read
              plan == call[c].plan
  <1>1. /\ call[c].pc = "write"
        /\ call'[c].ids = call[c].ids /\ call'[c].pc = "fire"
        /\ \A d \in Caller : d # c => call'[d] = call[d]
        /\ T \subseteq Target /\ read \in [Target -> Nat]
    BY DEF Write, FInv, TypeOK, Call
  <1>2. UNCHANGED <<observations, claim_jobs, engine, todo, ver>>
    BY DEF Write, queue
  <1>3. \A t \in T : /\ read[t] <= ver[t]
                     /\ read[t] = ver[t] => plan[t] \in Winners(observations[t])
    BY <1>1 DEF FInv, Planned
  <1>4. \A t \in Target : /\ lost[t] \/ (t \in T /\ read[t] < covered[t]) => lost'[t]
                          /\ covered'[t] = IF t \in T /\ read[t] > covered[t] THEN read[t] ELSE covered[t]
                          /\ t \in T => claims'[t] = Upsert(claims[t], plan[t])
                          /\ t \notin T => claims'[t] = claims[t]
    BY DEF Write
  <1>5. \A t \in Target : ver[t] \in Nat /\ covered[t] \in Nat /\ covered[t] <= ver[t]
    BY DEF FInv, TypeOK, Bounded
  <1>. HIDE DEF T, read, plan
  <1>6. \A t \in Target : covered[t] <= covered'[t] /\ covered'[t] <= ver[t]
    BY <1>1, <1>3, <1>4, <1>5
  <1>7. \A j \in Held(c) : Accounted(c, j)'
    <2>1. SUFFICES ASSUME NEW j \in Held(c)  PROVE Accounted(c, j)'
      OBVIOUS
    <2>2. /\ j[1] \in Target /\ j[2] \in Nat
          /\ j[2] <= covered[j[1]] \/ (j[1] \in T /\ j[2] <= read[j[1]])
      BY <1>1, HeldIsJobs DEF FInv, HeldJobs, Accounted, T, read
    <2>3. j[2] <= covered'[j[1]]
      BY <1>1, <1>4, <1>5, <2>2
    <2>. QED BY <2>3 DEF Accounted
  <1>8. \A t \in Target : ~lost'[t] /\ covered'[t] = ver[t] => Settled(t)'
    <2>1. SUFFICES ASSUME NEW t \in Target, ~lost'[t], covered'[t] = ver[t]  PROVE Settled(t)'
      OBVIOUS
    <2>2. CASE t \notin T
      BY <1>2, <1>4, <2>1, <2>2 DEF FInv, Fresh, Settled
    <2>3. CASE t \in T
      <3>1. read[t] = ver[t]
        BY <1>1, <1>4, <1>5, <2>1, <2>3
      <3>2. claims'[t] = Upsert(claims[t], plan[t])
        BY <1>4, <2>3
      <3>3. claims'[t].cls = "observed" /\ claims'[t].val = plan[t]
        BY <3>2 DEF Upsert
      <3>. QED BY <1>2, <1>3, <2>3, <3>1, <3>3 DEF Settled
    <2>. QED BY <2>2, <2>3
  <1>9. \A t \in Target : Heals(c, t) /\ c \in Retractor /\ ~lost'[t] =>
            Heals(c, t)' \/ covered'[t] = ver[t]
    BY <1>1, <1>4, <1>5 DEF Heals, Healing, T, read
  <1>10. \A t \in Target : lost[t] => lost'[t]
    BY <1>4
  <1>. QED BY <1>1, <1>2, <1>6, <1>7, <1>8, <1>9, <1>10, QuietStep

LEMMA FreshFire ==
  ASSUME FInv, TypeOK', NEW c \in Caller, Fire(c)
  PROVE  Bounded' /\ Planned' /\ HeldJobs' /\ Fresh' /\ Owed'
  <1>1. /\ call[c].pc = "fire"
        /\ call'[c].ids = call[c].ids /\ call'[c].pc = "done"
        /\ \A d \in Caller : d # c => call'[d] = call[d]
    BY DEF Fire, FInv, TypeOK, Call
  <1>2. UNCHANGED <<observations, claims, claim_jobs, engine, todo, ver, covered, lost>>
    BY DEF Fire, queue, history
  <1>3. \A t \in Target : covered[t] <= covered'[t] /\ covered'[t] <= ver[t]
    BY <1>2 DEF FInv, TypeOK, Bounded
  <1>4. \A j \in Held(c) : Accounted(c, j)'
    BY <1>1, <1>2 DEF FInv, HeldJobs, Accounted
  <1>5. \A t \in Target : ~lost'[t] /\ covered'[t] = ver[t] => Settled(t)'
    BY <1>2 DEF FInv, Fresh, Settled
  <1>6. \A t \in Target : ~Heals(c, t)
    BY <1>1 DEF Heals, Healing
  <1>. QED BY <1>1, <1>2, <1>3, <1>4, <1>5, <1>6, QuietStep

(* A step that reads and writes no observation and starts no write. *)
LEMMA ControlStep ==
  ASSUME FInv, TypeOK', UNCHANGED <<observations, ver>>,
         claim_jobs' \subseteq claim_jobs,
         \A j \in claim_jobs \ claim_jobs' : j[2] <= covered[j[1]],
         \A w \in Settler : todo'[w] \subseteq claim_jobs \cup todo[w],
         \A t \in Target : covered'[t] = covered[t] /\ (lost[t] => lost'[t]) /\ (Settled(t) => Settled(t)'),
         engine'.pc # "sweep" => engine'.batch = {},
         \A c \in Caller : \A j \in Held(c)' : j[2] <= ver[j[1]] /\ Accounted(c, j)',
         \A c \in Caller : /\ call'[c].pc = "write" => call'[c] = call[c]
                           /\ call'[c].pc = "idle" => call'[c] = Idle,
         \A w \in Retractor : call'[w].ids = {},
         \A w \in Retractor, t \in Target : Heals(w, t) => Heals(w, t)' \/ lost'[t]
  PROVE  Bounded' /\ Planned' /\ HeldJobs' /\ Fresh' /\ Owed'
  <1>1. Bounded'
    <2>1. \A w \in Settler : \A j \in todo'[w] : j[2] <= ver[j[1]]
      BY DEF FInv, Bounded
    <2>. QED BY <2>1 DEF FInv, Bounded
  <1>2. Planned'
    BY DEF FInv, Planned
  <1>3. HeldJobs'
    BY DEF HeldJobs
  <1>4. Fresh'
    BY DEF FInv, Fresh
  <1>5. Owed'
    <2>1. SUFFICES ASSUME NEW t \in Target, ~lost'[t], covered'[t] < ver[t]
                   PROVE  <<t, ver[t]>> \in claim_jobs' \/ \E w \in Retractor : Heals(w, t)'
      BY DEF Owed
    <2>2. ~lost[t] /\ covered[t] < ver[t]
      BY <2>1
    <2>3. CASE <<t, ver[t]>> \in claim_jobs
      <3>1. ~(ver[t] <= covered[t])
        BY <2>2 DEF FInv, TypeOK
      <3>. QED BY <2>3, <3>1
    <2>4. ASSUME NEW w \in Retractor, Heals(w, t)  PROVE Heals(w, t)'
      BY <2>1, <2>4
    <2>. QED BY <2>2, <2>3, <2>4 DEF FInv, Owed
  <1>. QED BY <1>1, <1>2, <1>3, <1>4, <1>5

LEMMA FreshFail ==
  ASSUME FInv, TypeOK', NEW c \in Caller, Fail(c)
  PROVE  Bounded' /\ Planned' /\ HeldJobs' /\ Fresh' /\ Owed'
  <1>1. /\ UNCHANGED <<observations, claims, claim_jobs, engine, todo, ver, covered>>
        /\ \A t \in Target : (lost[t] => lost'[t]) /\ (Healing(c, t) => lost'[t])
        /\ \A d \in Caller : d # c => call'[d] = call[d]
    <2>1. UNCHANGED <<observations, claims, claim_jobs, engine, todo, ver, covered>>
      BY DEF Fail, queue
    <2>2. lost' = [t \in Target |-> lost[t] \/ Healing(c, t)]
      BY DEF Fail
    <2>3. \A t \in Target : lost'[t] = (lost[t] \/ Healing(c, t))
      BY <2>2, Zenon
    <2>4. \A d \in Caller : d # c => call'[d] = call[d]
      BY DEF Fail, FInv, TypeOK
    <2>. QED BY <2>1, <2>3, <2>4
  <1>2. CASE c \in Target
    <2>1. call'[c].pc = "failed" /\ call'[c].ids = {}
      BY <1>2, RecomputeFields DEF Fail, FInv, TypeOK
    <2>2. \A d \in Caller : \A j \in Held(d)' : j[2] <= ver[j[1]] /\ Accounted(d, j)'
      <3>1. \A t \in Target : ver[t] <= ver'[t] /\ covered[t] <= covered'[t]
        BY <1>1 DEF FInv, TypeOK
      <3>2. Held(c)' = Held(c)
        BY <1>1, <1>2 DEF Held
      <3>3. \A j \in Held(c)' : j[2] <= ver[j[1]] /\ Accounted(c, j)'
        BY <2>1, <3>2 DEF FInv, HeldJobs, Accounted
      <3>. QED BY <1>1, <3>1, <3>3, HeldByOther
    <2>3. c \notin Retractor
      BY <1>2, ConstantsAssumption
    <2>. QED BY <1>1, <2>1, <2>2, <2>3, ControlStep DEF FInv, Bounded, Heals, Healing, Settled
  <1>3. CASE c \notin Target
    <2>1. call'[c] = Idle
      BY <1>3 DEF Fail, FInv, TypeOK
    <2>2. \A d \in Caller : \A j \in Held(d)' : j[2] <= ver[j[1]] /\ Accounted(d, j)'
      <3>1. \A t \in Target : ver[t] <= ver'[t] /\ covered[t] <= covered'[t]
        BY <1>1 DEF FInv, TypeOK
      <3>2. Held(c)' = {}
        BY <1>3, <2>1, IdleFields DEF Held
      <3>. QED BY <1>1, <3>1, <3>2, HeldByOther
    <2>. QED BY <1>1, <2>1, <2>2, IdleFields, ControlStep DEF FInv, Bounded, Heals, Healing, Settled
  <1>. QED BY <1>2, <1>3

LEMMA FreshCall ==
  ASSUME FInv, TypeOK', NEW c \in Caller, CallStep(c)
  PROVE  Bounded' /\ Planned' /\ HeldJobs' /\ Fresh' /\ Owed'
  BY FreshReadRows, FreshReadNoRows, FreshReadObservations, FreshWrite, FreshFire, FreshFail DEF CallStep

(* Outside the engine: a call goes idle and gives its jobs back. *)
LEMMA GoesIdle ==
  ASSUME FInv, TypeOK', NEW w \in Worker, call' = [call EXCEPT ![w] = Idle],
         UNCHANGED <<observations, ver, engine>>,
         claim_jobs' \subseteq claim_jobs,
         \A j \in claim_jobs \ claim_jobs' : j[2] <= covered[j[1]],
         \A s \in Settler : todo'[s] \subseteq todo[s],
         \A t \in Target : covered'[t] = covered[t] /\ (lost[t] => lost'[t]) /\ (Settled(t) => Settled(t)'),
         \A t \in Target : Healing(w, t) => lost'[t]
  PROVE  Bounded' /\ Planned' /\ HeldJobs' /\ Fresh' /\ Owed'
  <1>1. call'[w] = Idle /\ \A d \in Caller : d # w => call'[d] = call[d]
    BY DEF FInv, TypeOK
  <1>2. \A d \in Caller : \A j \in Held(d)' : j[2] <= ver[j[1]] /\ Accounted(d, j)'
    <2>1. \A t \in Target : ver[t] <= ver'[t] /\ covered[t] <= covered'[t]
      BY DEF FInv, TypeOK
    <2>2. Held(w)' = {}
      BY <1>1, IdleFields, ConstantsAssumption DEF Held
    <2>. QED BY <1>1, <2>1, <2>2, HeldByOther
  <1>. QED BY <1>1, <1>2, IdleFields, ControlStep DEF FInv, Bounded, Heals, Healing

LEMMA FreshWorker ==
  ASSUME FInv, TypeOK', NEW w \in Worker, Finish(w) \/ Crash(w)
  PROVE  Bounded' /\ Planned' /\ HeldJobs' /\ Fresh' /\ Owed'
  <1>1. CASE Finish(w)
    <2>1. w \notin Target /\ call[w].pc = "done"
      BY <1>1, ConstantsAssumption DEF Finish
    <2>2. \A j \in call[w].ids : j[2] <= covered[j[1]]
      BY <2>1 DEF FInv, HeldJobs, Held, Accounted
    <2>3. claim_jobs' \subseteq claim_jobs /\ claim_jobs \ claim_jobs' \subseteq call[w].ids
      BY <1>1 DEF Finish, SettledJobs
    <2>4. \A t \in Target : ~Healing(w, t)
      BY <2>1 DEF Healing
    <2>. QED BY <1>1, <2>2, <2>3, <2>4, GoesIdle DEF Finish, history, Settled
  <1>2. CASE Crash(w)
    <2>1. \A s \in Settler : todo'[s] \subseteq todo[s]
      BY <1>2 DEF Crash
    <2>. QED BY <1>2, <2>1, GoesIdle DEF Crash, Settled
  <1>. QED BY <1>1, <1>2

LEMMA FreshUser ==
  ASSUME FInv, TypeOK', NEW t \in Target, Clear(t) \/ \E v \in Value : Assert(t, v)
  PROVE  Bounded' /\ Planned' /\ HeldJobs' /\ Fresh' /\ Owed'
  <1>1. UNCHANGED <<observations, call, claim_jobs, engine, todo, ver, covered, lost>>
    BY DEF Clear, Assert, queue
  <1>2. \A u \in Target : Settled(u) => Settled(u)'
    <2>1. CASE Clear(t)
      <3>1. \A u \in Target : claims'[u].cls = claims[u].cls /\ claims'[u].val = claims[u].val
        BY <2>1 DEF Clear, FInv, TypeOK, Row
      <3>. QED BY <1>1, <3>1 DEF Settled
    <2>2. ASSUME NEW v \in Value, Assert(t, v)
          PROVE  \A u \in Target : Settled(u) => Settled(u)'
      <3>1. \A u \in Target : claims'[u] = claims[u] \/ claims'[u].cls = "asserted"
        BY <2>2 DEF Assert, FInv, TypeOK
      <3>. QED BY <1>1, <3>1 DEF Settled
    <2>. QED BY <2>1, <2>2
  <1>3. \A c \in Caller : \A j \in Held(c)' : j[2] <= ver[j[1]] /\ Accounted(c, j)'
    BY <1>1 DEF FInv, HeldJobs, Held, Accounted
  <1>. QED BY <1>1, <1>2, <1>3, ControlStep DEF FInv, Bounded, Heals, Healing

LEMMA FreshEngine ==
  ASSUME FInv, TypeOK', EngineSweep \/ EngineFinish \/ EngineWrap \/ EngineCrash
  PROVE  Bounded' /\ Planned' /\ HeldJobs' /\ Fresh' /\ Owed'
  <1>1. CASE EngineSweep
    <2>1. PICK B \in SUBSET claim_jobs :
            /\ engine' = [engine EXCEPT !.pc = "sweep", !.batch = B]
            /\ call' = [c \in Caller |->
                 IF c \in Target /\ (\E j \in B : j[1] = c) THEN Recompute("rows", {c}, {}) ELSE call[c]]
      BY <1>1 DEF EngineSweep
    <2>2. UNCHANGED <<observations, claims, claim_jobs, todo, ver, covered, lost>>
      BY <1>1 DEF EngineSweep, history
    <2>3. engine'.pc = "sweep" /\ engine'.batch = B
      BY <2>1 DEF FInv, TypeOK
    <2>4. \A c \in Caller :
            \/ call'[c] = call[c] /\ (c \in Target => \A j \in B : j[1] # c)
            \/ c \in Target /\ call'[c].pc = "rows" /\ call'[c].targets = {c} /\ call'[c].ids = {}
      <3>1. \A c \in Target : /\ Recompute("rows", {c}, {}).pc = "rows"
                              /\ Recompute("rows", {c}, {}).targets = {c}
                              /\ Recompute("rows", {c}, {}).ids = {}
        BY RecomputeFields
      <3>2. ASSUME NEW c \in Caller, c \in Target, \E j \in B : j[1] = c
            PROVE  call'[c] = Recompute("rows", {c}, {})
        BY <2>1, <3>2
      <3>3. ASSUME NEW c \in Caller, ~(c \in Target /\ \E j \in B : j[1] = c)
            PROVE  call'[c] = call[c]
        BY <2>1, <3>3
      <3>. QED BY <3>1, <3>2, <3>3
    <2>5. \A c \in Caller : \A j \in Held(c)' : j[2] <= ver[j[1]] /\ Accounted(c, j)'
      <3>1. SUFFICES ASSUME NEW c \in Caller, NEW j \in Held(c)'
                     PROVE  j[2] <= ver[j[1]] /\ Accounted(c, j)'
        OBVIOUS
      <3>2. CASE c \in Target
        <4>1. j \in B /\ j[1] = c
          BY <2>3, <3>1, <3>2 DEF Held
        <4>2. call'[c].pc = "rows" /\ call'[c].targets = {c}
          BY <2>4, <3>2, <4>1
        <4>3. j[2] <= ver[j[1]]
          BY <4>1 DEF FInv, Bounded
        <4>. QED BY <4>1, <4>2, <4>3 DEF Accounted
      <3>3. CASE c \notin Target
        <4>1. call'[c] = call[c]
          BY <2>4, <3>3
        <4>. QED BY <2>2, <3>1, <3>3, <4>1 DEF Held, FInv, HeldJobs, Accounted
      <3>. QED BY <3>2, <3>3
    <2>6. \A w \in Retractor : call'[w] = call[w]
      BY <2>4, ConstantsAssumption
    <2>. QED BY <2>2, <2>3, <2>4, <2>5, <2>6, ControlStep DEF FInv, Bounded, Heals, Healing, Settled
  <1>2. ASSUME EngineFinish \/ EngineWrap \/ EngineCrash
        PROVE  Bounded' /\ Planned' /\ HeldJobs' /\ Fresh' /\ Owed'
    <2>1. UNCHANGED <<observations, claims, todo, ver, covered, lost>>
      BY <1>2 DEF EngineFinish, EngineWrap, EngineCrash, history
    <2>2. engine'.pc # "sweep" /\ engine'.batch = {}
      BY <1>2 DEF EngineFinish, EngineWrap, EngineCrash
    <2>3. \A c \in Caller : call'[c] = call[c] \/ (c \in Target /\ call'[c] = Idle)
      BY <1>2 DEF EngineFinish, EngineWrap, EngineCrash
    <2>4. claim_jobs' \subseteq claim_jobs /\ \A j \in claim_jobs \ claim_jobs' : j[2] <= covered[j[1]]
      <3>1. CASE EngineFinish
        <4>1. ASSUME NEW j \in engine.batch, call[j[1]].pc = "done", j[1] \in Target
              PROVE  j[2] <= covered[j[1]]
          <5>1. j \in Held(j[1])
            BY <4>1 DEF Held
          <5>. QED BY <4>1, <5>1 DEF FInv, HeldJobs, Accounted
        <4>. QED BY <3>1, <4>1 DEF EngineFinish, SweptJobs
      <3>2. CASE EngineWrap \/ EngineCrash
        BY <3>2 DEF EngineWrap, EngineCrash
      <3>. QED BY <1>2, <3>1, <3>2
    <2>5. \A c \in Caller : \A j \in Held(c)' : j[2] <= ver[j[1]] /\ Accounted(c, j)'
      <3>1. SUFFICES ASSUME NEW c \in Caller, c \notin Target, NEW j \in call'[c].ids
                     PROVE  j[2] <= ver[j[1]] /\ Accounted(c, j)'
        BY <2>2 DEF Held
      <3>2. call'[c] = call[c] /\ j \in Held(c)
        BY <2>3, <3>1 DEF Held
      <3>. QED BY <2>1, <3>2 DEF FInv, HeldJobs, Accounted
    <2>6. \A w \in Retractor : call'[w] = call[w]
      BY <2>3, ConstantsAssumption
    <2>. QED BY <2>1, <2>2, <2>3, <2>4, <2>5, <2>6, IdleFields, ControlStep
         DEF FInv, Bounded, Heals, Healing, Settled
  <1>. QED BY <1>1, <1>2

LEMMA FreshSettle ==
  ASSUME FInv, TypeOK', NEW w \in Settler, SettleStart(w) \/ SettleBatch(w)
  PROVE  Bounded' /\ Planned' /\ HeldJobs' /\ Fresh' /\ Owed'
  <1>0. w \notin Target /\ w \notin Retractor
    BY ConstantsAssumption
  <1>1. CASE SettleStart(w)
    <2>1. UNCHANGED <<observations, claims, claim_jobs, call, engine, ver, covered, lost>>
      BY <1>1 DEF SettleStart, history
    <2>2. \A s \in Settler : todo'[s] \subseteq claim_jobs \cup todo[s]
      BY <1>1 DEF SettleStart
    <2>3. \A c \in Caller : \A j \in Held(c)' : j[2] <= ver[j[1]] /\ Accounted(c, j)'
      BY <2>1 DEF FInv, HeldJobs, Held, Accounted
    <2>. QED BY <2>1, <2>2, <2>3, ControlStep DEF FInv, Bounded, Heals, Healing, Settled
  <1>2. CASE SettleBatch(w)
    <2>1. PICK T : LET ids == {j \in todo[w] \cap claim_jobs : j[1] \in T}
                       here == {j[1] : j \in ids}
                   IN /\ todo' = [todo EXCEPT ![w] = {j \in @ : j[1] \notin T}]
                      /\ call' = [call EXCEPT ![w] = IF here = {} THEN Idle ELSE Recompute("rows", here, ids)]
      BY <1>2 DEF SettleBatch
    <2>. DEFINE ids == {j \in todo[w] \cap claim_jobs : j[1] \in T}
                here == {j[1] : j \in ids}
    <2>2. ids \subseteq Target \X Nat /\ here \subseteq Target /\ ids \subseteq claim_jobs
          /\ \A j \in ids : j[1] \in here
      BY DEF FInv, TypeOK
    <2>3. UNCHANGED <<observations, claims, claim_jobs, engine, ver, covered, lost>>
      BY <1>2 DEF SettleBatch, history
    <2>4. \A s \in Settler : todo'[s] \subseteq claim_jobs \cup todo[s]
      BY <2>1
    <2>5. call' = [call EXCEPT ![w] = IF here = {} THEN Idle ELSE Recompute("rows", here, ids)]
      BY <2>1
    <2>6. call[w].pc = "idle"
      BY <1>2 DEF SettleBatch
    <2>. HIDE DEF here, ids
    <2>7. \A d \in Caller : d # w => call'[d] = call[d]
      BY <2>5 DEF FInv, TypeOK
    <2>8. \/ call'[w] = Idle
          \/ call'[w].pc = "rows" /\ call'[w].targets = here /\ call'[w].ids = ids
      BY <2>2, <2>5, RecomputeFields DEF FInv, TypeOK
    <2>9. \A j \in Held(w)' : j[2] <= ver[j[1]] /\ Accounted(w, j)'
      <3>1. SUFFICES ASSUME NEW j \in Held(w)'
                     PROVE  j[2] <= ver[j[1]] /\ Accounted(w, j)'
        OBVIOUS
      <3>2. j \in ids /\ call'[w].pc = "rows" /\ call'[w].targets = here
        BY <1>0, <2>8, <3>1, IdleFields DEF Held
      <3>. QED BY <2>2, <3>2 DEF Accounted, FInv, Bounded
    <2>10. \A d \in Caller : \A j \in Held(d)' : j[2] <= ver[j[1]] /\ Accounted(d, j)'
      <3>1. \A t \in Target : ver[t] <= ver'[t] /\ covered[t] <= covered'[t]
        BY <2>3 DEF FInv, TypeOK
      <3>. QED BY <2>3, <2>7, <2>9, <3>1, HeldByOther
    <2>. QED BY <1>0, <2>3, <2>4, <2>7, <2>8, <2>10, IdleFields, ControlStep
         DEF FInv, Bounded, Heals, Healing, Settled
  <1>. QED BY <1>1, <1>2

(* A change of t's observations: either its job is queued, or the retraction
   that made it is now on its way to heal the claim. *)
LEMMA LogStep ==
  ASSUME FInv, TypeOK', NEW t \in Target,
         ver' = [ver EXCEPT ![t] = @ + 1],
         \A u \in Target : u # t => observations'[u] = observations[u],
         UNCHANGED <<claims, engine, todo, covered, lost>>,
         claim_jobs \subseteq claim_jobs',
         claim_jobs' \subseteq claim_jobs \cup {<<t, ver[t] + 1>>},
         \A c \in Caller : \/ call'[c] = call[c]
                           \/ /\ c \notin Target /\ call[c].pc = "idle"
                              /\ call'[c].ids = {} /\ call'[c].pc \in {"rows", "count"},
         <<t, ver[t] + 1>> \in claim_jobs' \/ \E w \in Retractor : Healing(w, t)' /\ call'[w].pc = "count"
  PROVE  Bounded' /\ Planned' /\ HeldJobs' /\ Fresh' /\ Owed'
  <1>1. /\ ver'[t] = ver[t] + 1 /\ ver[t] \in Nat
        /\ \A u \in Target : u # t => ver'[u] = ver[u]
        /\ \A u \in Target : ver[u] \in Nat /\ ver'[u] \in Nat /\ covered[u] \in Nat /\ ver[u] <= ver'[u]
    BY DEF FInv, TypeOK
  <1>2. Bounded'
    <2>1. \A u \in Target : covered'[u] <= ver'[u]
      BY <1>1 DEF FInv, Bounded
    <2>2. \A j \in claim_jobs' : j[2] <= ver'[j[1]]
      <3>1. SUFFICES ASSUME NEW j \in claim_jobs'  PROVE j[2] <= ver'[j[1]]
        OBVIOUS
      <3>2. CASE j = <<t, ver[t] + 1>>
        BY <1>1, <3>2
      <3>3. CASE j \in claim_jobs
        <4>1. j[1] \in Target /\ j[2] \in Nat /\ j[2] <= ver[j[1]]
          BY <3>3 DEF FInv, TypeOK, Bounded
        <4>. QED BY <1>1, <4>1
      <3>. QED BY <3>2, <3>3
    <2>3. \A w \in Settler : \A j \in todo'[w] : j[2] <= ver'[j[1]]
      <3>1. SUFFICES ASSUME NEW w \in Settler, NEW j \in todo[w]  PROVE j[2] <= ver'[j[1]]
        OBVIOUS
      <3>2. j[1] \in Target /\ j[2] \in Nat /\ j[2] <= ver[j[1]]
        BY DEF FInv, TypeOK, Bounded
      <3>. QED BY <1>1, <3>2
    <2>. QED BY <2>1, <2>2, <2>3 DEF FInv, Bounded
  <1>3. Planned'
    <2>1. SUFFICES ASSUME NEW c \in Caller, call[c].pc = "write", call'[c] = call[c], NEW u \in call[c].targets
                   PROVE  /\ call[c].read[u] <= ver'[u]
                          /\ call[c].read[u] = ver'[u] => call[c].plan[u] \in Winners(observations'[u])
      BY DEF Planned
    <2>2. u \in Target /\ call[c].read[u] \in Nat /\ call[c].read[u] <= ver[u]
          /\ (call[c].read[u] = ver[u] => call[c].plan[u] \in Winners(observations[u]))
      BY <2>1 DEF FInv, TypeOK, Call, Planned
    <2>. QED BY <1>1, <2>2
  <1>4. HeldJobs'
    <2>1. ASSUME NEW c \in Caller, call'[c] = call[c]
          PROVE  \A j \in Held(c)' : j[2] <= ver'[j[1]] /\ Accounted(c, j)'
      <3>1. \A u \in Target : ver[u] <= ver'[u] /\ covered[u] <= covered'[u]
        BY <1>1
      <3>. QED BY <2>1, <3>1, HeldByOther
    <2>2. ASSUME NEW c \in Caller, c \notin Target, call'[c].ids = {}
          PROVE  Held(c)' = {}
      BY <2>2 DEF Held
    <2>. QED BY <2>1, <2>2 DEF HeldJobs
  <1>5. Fresh'
    <2>1. SUFFICES ASSUME NEW u \in Target, ~lost[u], covered[u] = ver'[u]  PROVE Settled(u)'
      BY DEF Fresh
    <2>2. u # t
      BY <1>1, <2>1 DEF FInv, Bounded
    <2>3. Settled(u)
      BY <1>1, <2>1, <2>2 DEF FInv, Fresh
    <2>. QED BY <2>2, <2>3 DEF Settled
  <1>6. Owed'
    <2>1. SUFFICES ASSUME NEW u \in Target, ~lost[u], covered[u] < ver'[u]
                   PROVE  <<u, ver'[u]>> \in claim_jobs' \/ \E w \in Retractor : Heals(w, u)'
      BY DEF Owed
    <2>2. CASE u = t
      BY <1>1, <2>2 DEF Heals
    <2>3. CASE u # t
      <3>1. ASSUME NEW w \in Retractor, Heals(w, u)  PROVE Heals(w, u)'
        <4>1. call'[w] = call[w]
          BY <3>1 DEF Heals, Healing
        <4>. QED BY <1>1, <2>3, <3>1, <4>1, HealsByOther
      <3>. QED BY <1>1, <2>1, <2>3, <3>1 DEF FInv, Owed
    <2>. QED BY <2>2, <2>3
  <1>. QED BY <1>2, <1>3, <1>4, <1>5, <1>6

LEMMA FreshIngest ==
  ASSUME FInv, TypeOK', NEW t \in Target, Observe(t) \/ \E w \in Recorder : Record(w, t)
  PROVE  Bounded' /\ Planned' /\ HeldJobs' /\ Fresh' /\ Owed'
  <1>1. PICK at \in Time, v \in Value \cup {NoValue} : Insert(t, at, v)
    BY ConstantsAssumption DEF Observe, Record
  <1>2. /\ ver' = [ver EXCEPT ![t] = @ + 1]
        /\ UNCHANGED <<claims, engine, todo, covered, lost>>
        /\ claim_jobs' = claim_jobs \cup {<<t, ver[t] + 1>>}
        /\ \A u \in Target : u # t => observations'[u] = observations[u]
    BY <1>1 DEF Insert, FInv, TypeOK
  <1>3. \A c \in Caller : \/ call'[c] = call[c]
                          \/ /\ c \notin Target /\ call[c].pc = "idle"
                             /\ call'[c].ids = {} /\ call'[c].pc \in {"rows", "count"}
    <2>1. CASE Observe(t)
      BY <2>1 DEF Observe
    <2>2. ASSUME NEW w \in Recorder, Record(w, t)
          PROVE  /\ w \notin Target /\ call[w].pc = "idle"
                 /\ call'[w].ids = {} /\ call'[w].pc = "rows"
                 /\ \A c \in Caller : c # w => call'[c] = call[c]
      <3>1. /\ InlineRecompute(t) \in Call
            /\ InlineRecompute(t).pc = "rows" /\ InlineRecompute(t).ids = {}
        BY RecomputeFields DEF InlineRecompute
      <3>. QED BY <2>2, <3>1, ConstantsAssumption DEF Record, FInv, TypeOK
    <2>. QED BY <2>1, <2>2
  <1>. QED BY <1>2, <1>3, LogStep

LEMMA FreshRetract ==
  ASSUME FInv, TypeOK', NEW w \in Retractor,
         (\E t \in Target : RetractDelete(w, t)) \/ RetractCount(w) \/ RetractNoCount(w) \/ RetractHide(w)
  PROVE  Bounded' /\ Planned' /\ HeldJobs' /\ Fresh' /\ Owed'
  <1>0. w \notin Target /\ w \in Worker
    BY ConstantsAssumption
  <1>1. ASSUME NEW t \in Target, RetractDelete(w, t)
        PROVE  Bounded' /\ Planned' /\ HeldJobs' /\ Fresh' /\ Owed'
    <2>1. /\ ver' = [ver EXCEPT ![t] = @ + 1]
          /\ UNCHANGED <<claims, engine, todo, covered, lost, claim_jobs>>
          /\ \A u \in Target : u # t => observations'[u] = observations[u]
      BY <1>1 DEF RetractDelete, queue, FInv, TypeOK
    <2>2. /\ call[w].pc = "idle"
          /\ call'[w].pc = "count" /\ call'[w].ids = {} /\ call'[w].targets = {t}
          /\ \A c \in Caller : c # w => call'[c] = call[c]
      BY <1>1, RecomputeFields DEF RetractDelete, FInv, TypeOK
    <2>3. Healing(w, t)'
      BY <2>2 DEF Healing
    <2>. QED BY <1>0, <2>1, <2>2, <2>3, LogStep
  <1>2. CASE RetractCount(w)
    <2>. DEFINE left == \E t \in call[w].targets : observations[t] # {}
    <2>1. /\ call[w].pc = "count"
          /\ call'[w].pc = IF left THEN "rows" ELSE "hide"
          /\ call'[w].ids = call[w].ids /\ call'[w].targets = call[w].targets
          /\ \A c \in Caller : c # w => call'[c] = call[c]
      BY <1>2 DEF RetractCount, AfterCount, FInv, TypeOK, Call
    <2>2. UNCHANGED <<observations, claims, claim_jobs, engine, todo, ver, lost>>
      BY <1>2 DEF RetractCount, queue
    <2>3. /\ \A t \in Target : ~left /\ t \in call[w].targets => covered'[t] = ver[t]
          /\ \A t \in Target : left \/ t \notin call[w].targets => covered'[t] = covered[t]
      BY <1>2 DEF RetractCount
    <2>4. \A t \in Target : ~left /\ t \in call[w].targets => Settled(t)'
      BY <2>2 DEF Settled, Stated
    <2>. HIDE DEF left
    <2>5. \A t \in Target : covered[t] <= covered'[t] /\ covered'[t] <= ver[t]
      BY <2>3 DEF FInv, Bounded, TypeOK
    <2>6. \A j \in Held(w) : Accounted(w, j)'
      BY <1>0 DEF Held, FInv, Bounded
    <2>7. \A t \in Target : ~lost'[t] /\ covered'[t] = ver[t] => Settled(t)'
      BY <2>2, <2>3, <2>4 DEF FInv, Fresh, Settled
    <2>8. \A t \in Target : Heals(w, t) => Heals(w, t)' \/ covered'[t] = ver[t]
      BY <2>1, <2>3 DEF Heals, Healing
    <2>. QED BY <1>0, <2>1, <2>2, <2>5, <2>6, <2>7, <2>8, QuietStep
  <1>3. CASE RetractHide(w)
    <2>1. \A t \in Target : claims'[t].cls = claims[t].cls /\ claims'[t].val = claims[t].val
      BY <1>3 DEF RetractHide, FInv, TypeOK, Row
    <2>2. \A t \in Target : Settled(t) => Settled(t)'
      BY <1>3, <2>1 DEF RetractHide, Settled
    <2>3. \A t \in Target : ~Healing(w, t)
      BY <1>3 DEF RetractHide, Healing
    <2>. QED BY <1>0, <1>3, <2>2, <2>3, GoesIdle DEF RetractHide, queue
  <1>4. CASE RetractNoCount(w)
    <2>1. /\ call[w].pc = "count" /\ call'[w].pc = "hide"
          /\ call'[w].ids = call[w].ids /\ call'[w].targets = call[w].targets
          /\ \A c \in Caller : c # w => call'[c] = call[c]
      BY <1>4 DEF RetractNoCount, AfterCount, FInv, TypeOK, Call
    <2>2. UNCHANGED <<observations, claims, claim_jobs, engine, todo, ver, covered>>
      BY <1>4 DEF RetractNoCount, queue
    <2>3. \A t \in Target : lost'[t] = (lost[t] \/ Healing(w, t))
      <3>1. lost' = [t \in Target |-> lost[t] \/ Healing(w, t)]
        BY <1>4 DEF RetractNoCount
      <3>. QED BY <3>1, Zenon
    <2>4. \A t \in Target : covered[t] <= covered'[t] /\ covered'[t] <= ver[t]
      BY <2>2 DEF FInv, Bounded, TypeOK
    <2>5. \A j \in Held(w) : Accounted(w, j)'
      BY <1>0 DEF Held, FInv, Bounded
    <2>6. \A t \in Target : ~lost'[t] /\ covered'[t] = ver[t] => Settled(t)'
      BY <2>2, <2>3 DEF FInv, Fresh, Settled
    <2>7. \A t \in Target : Heals(w, t) => lost'[t]
      BY <2>3 DEF Heals
    <2>. QED BY <1>0, <2>1, <2>2, <2>3, <2>4, <2>5, <2>6, <2>7, QuietStep
  <1>. QED BY <1>1, <1>2, <1>3, <1>4

LEMMA FreshStep == FInv /\ [Next]_vars => FInv'
  <1>. SUFFICES ASSUME FInv, [Next]_vars  PROVE FInv'
    OBVIOUS
  <1>1. TypeOK'
    BY TypeStep DEF FInv
  <1>2. CASE UNCHANGED vars
    <2>1. UNCHANGED <<observations, claim_jobs, claims, call, engine, todo, ver, covered, lost>>
      BY <1>2 DEF vars
    <2>2. Bounded' /\ Planned' /\ HeldJobs' /\ Fresh' /\ Owed'
      BY <2>1 DEF FInv, Bounded, Planned, HeldJobs, Held, Accounted, Fresh, Settled, Owed, Heals, Healing
    <2>. QED BY <1>1, <2>2 DEF FInv
  <1>3. CASE Next
    <2>1. Bounded' /\ Planned' /\ HeldJobs' /\ Fresh' /\ Owed'
      BY <1>1, <1>3, FreshCall, FreshEngine, FreshSettle, FreshRetract, FreshWorker, FreshUser, FreshIngest DEF Next
    <2>. QED BY <1>1, <2>1 DEF FInv
  <1>. QED BY <1>2, <1>3

(* A claim is stale only while somebody still answers for its latest change:
   its job is queued, its retraction is on its way, or a lost write is on
   record.  Deleting a drained batch by the ids it read is what makes this
   true: a job that arrived after the read survives the delete. *)
THEOREM StaleHasReason == Spec => []StaleOnlyAfterLoss
  <1>1. Init => FInv
    <2>1. Init => Bounded /\ Planned /\ HeldJobs /\ Fresh /\ Owed
      BY IdleFields DEF Init, Bounded, Planned, HeldJobs, Held, Fresh, Settled, Stated, Owed
    <2>. QED BY <2>1, TypeInit DEF FInv
  <1>2. FInv => StaleOnlyAfterLoss
    <2>1. SUFFICES ASSUME FInv, NEW t \in Target, ~Settled(t), ~lost[t]
                   PROVE  <<t, ver[t]>> \in claim_jobs \/ \E w \in Retractor : Healing(w, t)
      BY DEF StaleOnlyAfterLoss
    <2>2. covered[t] < ver[t]
      <3>1. covered[t] # ver[t]
        BY <2>1 DEF FInv, Fresh
      <3>2. covered[t] \in Nat /\ ver[t] \in Nat /\ covered[t] <= ver[t]
        BY <2>1 DEF FInv, Bounded, TypeOK
      <3>. QED BY <3>1, <3>2
    <2>. QED BY <2>1, <2>2 DEF FInv, Owed, Heals
  <1>. QED BY <1>1, <1>2, FreshStep, PTL DEF Spec

-----------------------------------------------------------------------------
(* The engine as the only writer *)

(* One call per target, and nobody else: a write is never older than the one
   before it. *)
Solo ==
  /\ \A t \in Target : ~lost[t]
  /\ \A c \in Target : call[c].targets \subseteq {c}
  /\ \A c \in Target : call[c].pc = "write" /\ c \in call[c].targets => covered[c] <= call[c].read[c]

(* A step that moves no call into a write and covers nothing. *)
LEMMA SoloCalm ==
  ASSUME Solo, lost' = lost, covered' = covered,
         \A c \in Target : \/ call'[c] = call[c]
                           \/ call'[c].targets \subseteq {c} /\ call'[c].pc # "write"
  PROVE  Solo'
  BY DEF Solo

LEMMA SoloCall ==
  ASSUME Worker = {}, FInv, Solo, NEW c \in Caller, CallStep(c)
  PROVE  Solo'
  <1>0. c \in Target /\ Caller = Target /\ Retractor = {}
    OBVIOUS
  <1>1. CASE ReadRows(c)
    <2>1. /\ call'[c].targets \subseteq call[c].targets
          /\ call'[c].pc # "write"
          /\ \A d \in Target : d # c => call'[d] = call[d]
      BY <1>1 DEF ReadRows, Unpinned, FInv, TypeOK, Call
    <2>2. \A t \in Target : t \notin call[c].targets => covered'[t] = covered[t]
      BY <1>1 DEF ReadRows, FInv, TypeOK
    <2>3. lost' = lost /\ call[c].targets \subseteq {c}
      BY <1>0, <1>1 DEF ReadRows, Solo
    <2>. QED BY <1>0, <2>1, <2>2, <2>3 DEF Solo
  <1>2. CASE ReadObservations(c)
    <2>0. PICK p \in [Target -> Value \cup {NoValue}] :
            LET S == {t \in call[c].targets : p[t] # NoValue} IN
              /\ call' = [call EXCEPT ![c] =
                   [@ EXCEPT !.pc = IF S = {} THEN "done" ELSE "write",
                             !.targets = S, !.plan = p,
                             !.read = [t \in Target |-> IF t \in S THEN ver[t] ELSE 0]]]
              /\ covered' = [t \in Target |-> IF t \in call[c].targets \ S THEN ver[t] ELSE covered[t]]
      BY <1>2 DEF ReadObservations
    <2>. DEFINE T == {t \in call[c].targets : p[t] # NoValue}
                n == [t \in Target |-> IF t \in T THEN ver[t] ELSE 0]
                q == IF T = {} THEN "done" ELSE "write"
    <2>1. call[c].targets \subseteq {c} /\ T \subseteq {c} /\ lost' = lost
      BY <1>0, <1>2 DEF ReadObservations, Solo
    <2>2. call' = [call EXCEPT ![c] = [@ EXCEPT !.pc = q, !.targets = T, !.plan = p, !.read = n]]
      BY <2>0
    <2>3. \A t \in Target : /\ t # c => covered'[t] = covered[t]
                            /\ t \in T => covered'[t] = covered[t] /\ n[t] = ver[t]
      BY <2>0, <2>1
    <2>4. call[c] \in Call /\ call \in [Caller -> Call]
      BY DEF FInv, TypeOK
    <2>. HIDE DEF T, n, q
    <2>5. /\ call'[c].targets = T /\ call'[c].read = n
          /\ \A d \in Target : d # c => call'[d] = call[d]
      BY <2>2, <2>4, PlanFields
    <2>6. c \in T => covered'[c] <= n[c]
      BY <1>0, <2>3 DEF FInv, Bounded
    <2>. QED BY <2>1, <2>3, <2>5, <2>6 DEF Solo
  <1>3. CASE Write(c)
    <2>1. call[c].pc = "write" /\ call[c].targets \subseteq {c}
      BY <1>0, <1>3 DEF Write, Solo
    <2>2. /\ call'[c].pc = "fire" /\ call'[c].targets = call[c].targets
          /\ \A d \in Target : d # c => call'[d] = call[d]
      BY <1>0, <1>3 DEF Write, FInv, TypeOK, Call
    <2>3. \A t \in Target : t # c => covered'[t] = covered[t]
      BY <1>3, <2>1 DEF Write
    <2>4. \A t \in Target : ~(t \in call[c].targets /\ call[c].read[t] < covered[t])
      <3>1. SUFFICES ASSUME c \in call[c].targets  PROVE ~(call[c].read[c] < covered[c])
        BY <2>1
      <3>2. covered[c] <= call[c].read[c] /\ covered[c] \in Nat /\ call[c].read[c] \in Nat
        BY <1>0, <2>1, <3>1 DEF Solo, FInv, TypeOK, Call
      <3>. QED BY <3>2
    <2>5. lost' = [t \in Target |-> lost[t] \/ (t \in call[c].targets /\ call[c].read[t] < covered[t])]
      BY <1>3 DEF Write
    <2>6. \A t \in Target : ~lost'[t]
      BY <2>4, <2>5, Zenon DEF Solo
    <2>. QED BY <2>1, <2>2, <2>3, <2>6 DEF Solo
  <1>4. CASE Fire(c)
    <2>1. /\ call'[c].pc = "done" /\ call'[c].targets = call[c].targets
          /\ \A d \in Target : d # c => call'[d] = call[d]
      BY <1>0, <1>4 DEF Fire, FInv, TypeOK, Call
    <2>. QED BY <1>0, <1>4, <2>1, SoloCalm DEF Fire, Solo, history
  <1>5. CASE Fail(c)
    <2>1. /\ call'[c].pc = "failed" /\ call'[c].targets = {}
          /\ \A d \in Target : d # c => call'[d] = call[d]
      BY <1>0, <1>5, RecomputeFields DEF Fail, FInv, TypeOK
    <2>2. lost' = [t \in Target |-> lost[t] \/ Healing(c, t)]
      BY <1>5 DEF Fail
    <2>3. \A t \in Target : ~Healing(c, t)
      BY <1>0 DEF Healing
    <2>4. \A t \in Target : ~lost'[t]
      BY <2>2, <2>3, Zenon DEF Solo
    <2>5. covered' = covered
      BY <1>5 DEF Fail
    <2>. QED BY <2>1, <2>4, <2>5 DEF Solo
  <1>6. CASE ReadNoRows(c)
    <2>1. /\ call'[c].targets = call[c].targets /\ call'[c].pc = "obs"
          /\ \A d \in Target : d # c => call'[d] = call[d]
      BY <1>0, <1>6 DEF ReadNoRows, FInv, TypeOK, Call
    <2>. QED BY <1>0, <1>6, <2>1, SoloCalm DEF ReadNoRows, Solo
  <1>. QED BY <1>1, <1>2, <1>3, <1>4, <1>5, <1>6 DEF CallStep

LEMMA SoloStep ==
  ASSUME Worker = {}, FInv, Solo, [Next]_vars
  PROVE  Solo'
  <1>0. Settler = {} /\ Recorder = {} /\ Retractor = {} /\ Caller = Target
    OBVIOUS
  <1>1. CASE UNCHANGED vars
    BY <1>1 DEF vars, Solo
  <1>2. ASSUME NEW c \in Caller, CallStep(c)  PROVE Solo'
    BY <1>2, SoloCall
  <1>3. ASSUME NEW t \in Target, Observe(t) \/ Clear(t) \/ \E v \in Value : Assert(t, v)
        PROVE  Solo'
    <2>1. lost' = lost /\ covered' = covered /\ call' = call
      BY <1>3 DEF Observe, Insert, Clear, Assert
    <2>. QED BY <2>1, SoloCalm
  <1>4. CASE EngineSweep
    <2>1. PICK B \in SUBSET claim_jobs :
            call' = [c \in Caller |->
                 IF c \in Target /\ (\E j \in B : j[1] = c) THEN Recompute("rows", {c}, {}) ELSE call[c]]
      BY <1>4 DEF EngineSweep
    <2>2. \A c \in Target : /\ Recompute("rows", {c}, {}).pc = "rows"
                            /\ Recompute("rows", {c}, {}).targets = {c}
      BY RecomputeFields
    <2>3. \A c \in Target : call'[c] = call[c] \/ call'[c] = Recompute("rows", {c}, {})
      BY <2>1
    <2>4. lost' = lost /\ covered' = covered
      BY <1>4 DEF EngineSweep, history
    <2>. QED BY <2>2, <2>3, <2>4, SoloCalm
  <1>5. CASE EngineFinish \/ EngineWrap \/ EngineCrash
    <2>1. \A c \in Target : call'[c] = call[c] \/ call'[c] = Idle
      BY <1>5 DEF EngineFinish, EngineWrap, EngineCrash
    <2>2. lost' = lost /\ covered' = covered
      BY <1>5 DEF EngineFinish, EngineWrap, EngineCrash, history
    <2>. QED BY <2>1, <2>2, IdleFields, SoloCalm
  <1>. QED BY <1>0, <1>1, <1>2, <1>3, <1>4, <1>5 DEF Next

(* Without settles and inline recomputes nothing is ever lost: whatever fails
   or crashes, a claim that lags its observations has a job in the queue. *)
THEOREM EngineAloneKeepsUp ==
  ASSUME Worker = {}
  PROVE  Spec => []CurrentOrQueued
  <1>1. Init => FInv /\ Solo
    <2>1. Init => Bounded /\ Planned /\ HeldJobs /\ Fresh /\ Owed /\ Solo
      BY IdleFields DEF Init, Bounded, Planned, HeldJobs, Held, Fresh, Settled, Stated, Owed, Solo
    <2>. QED BY <2>1, TypeInit DEF FInv
  <1>2. FInv /\ Solo /\ [Next]_vars => (FInv /\ Solo)'
    BY FreshStep, SoloStep
  <1>3. FInv /\ Solo => CurrentOrQueued
    <2>1. SUFFICES ASSUME FInv, Solo, NEW t \in Target, ~Settled(t)  PROVE JobsOf(t) # {}
      BY DEF CurrentOrQueued
    <2>2. covered[t] < ver[t]
      <3>1. covered[t] # ver[t]
        BY <2>1 DEF FInv, Fresh, Solo
      <3>2. covered[t] \in Nat /\ ver[t] \in Nat /\ covered[t] <= ver[t]
        BY <2>1 DEF FInv, Bounded, TypeOK
      <3>. QED BY <3>1, <3>2
    <2>3. <<t, ver[t]>> \in claim_jobs
      BY <2>1, <2>2 DEF FInv, Owed, Solo
    <2>. QED BY <2>3 DEF JobsOf
  <1>. QED BY <1>1, <1>2, <1>3, PTL DEF Spec
-----------------------------------------------------------------------------
(* Announcements *)

(* The arrival of t at a hot value is announced, known to be dropped, or about to
   be announced by a caller that wrote it. *)
Told(t) == t \in announced \cup dropped \/ \E c \in Caller : t \in Unfired(c)

HotRow(t) == claims[t].cls = "observed" /\ claims[t].val \in Hot

(* Why no event falls between two recomputes: one that found the value hot already,
   and will not announce it, found it so because somebody did or is about to. *)
FoundHot  == \A c \in Caller : \A t \in call[c].wasHot : Told(t)
NoGhost   == \A t \in Target : claims[t].cls = "absent" => ~claims[t].live
QuietTick == engine.pc # "sweep" => \A t \in Target : call[t].pc = "idle"

EInv == TypeOK /\ EntryAnnounced /\ FoundHot /\ NoGhost /\ QuietTick

LEMMA EntryIsTold == EntryAnnounced <=> \A t \in Target : HotRow(t) => Told(t)
  BY DEF EntryAnnounced, Told, HotRow, Unfired

(* A step keeps the announcements when it forgets none, announces or drops what it
   takes from a caller, and makes no row hot but by a write that will be told. *)
LEMMA TellStep ==
  ASSUME EInv, announced \subseteq announced', dropped \subseteq dropped',
         \A c \in Caller : Unfired(c) \subseteq Unfired(c)' \cup announced' \cup dropped',
         \A c \in Caller : \A t \in call'[c].wasHot : t \in call[c].wasHot \/ (t \in Target /\ HotRow(t)),
         \A t \in Target : HotRow(t)' =>
           HotRow(t) \/ \E c \in Caller : t \in call[c].wasHot \cup Unfired(c)'
  PROVE  EntryAnnounced' /\ FoundHot'
  <1>1. \A t : Told(t) => Told(t)'
    BY DEF Told
  <1>2. \A t \in Target : HotRow(t) => Told(t)
    BY EntryIsTold DEF EInv
  <1>3. FoundHot'
    BY <1>1, <1>2 DEF EInv, FoundHot
  <1>4. \A t \in Target : HotRow(t)' => Told(t)'
    BY <1>1, <1>2 DEF EInv, FoundHot, Told
  <1>. QED BY <1>3, <1>4 DEF EntryAnnounced, Told, HotRow, Unfired

(* A step that writes no claim and leaves every call that is about to announce. *)
LEMMA CallsTell ==
  ASSUME EInv, claims' = claims, announced \subseteq announced', dropped \subseteq dropped',
         \A c \in Caller : \/ call'[c] = call[c]
                           \/ /\ Unfired(c) \subseteq announced' \cup dropped'
                              /\ call'[c].wasHot \subseteq call[c].wasHot
  PROVE  EntryAnnounced' /\ FoundHot'
  <1>1. \A c \in Caller : Unfired(c) \subseteq Unfired(c)' \cup announced' \cup dropped'
    BY DEF Unfired, Transitions
  <1>2. \A c \in Caller : \A t \in call'[c].wasHot : t \in call[c].wasHot
    OBVIOUS
  <1>3. \A t \in Target : HotRow(t)' => HotRow(t)
    BY DEF HotRow
  <1>. QED BY <1>1, <1>2, <1>3, TellStep

LEMMA HotFields ==
  /\ Idle.wasHot = {}
  /\ \A pc, T, ids : Recompute(pc, T, ids).wasHot = {} /\ Recompute(pc, T, ids).pc = pc
  BY DEF Recompute, Idle

LEMMA HiddenFields ==
  ASSUME NEW r \in Row
  PROVE  LET h == [r EXCEPT !.live = FALSE] IN h.val = r.val /\ h.cls = r.cls /\ h.live = FALSE
  BY DEF Row

LEMMA CallTells ==
  ASSUME EInv, NEW c \in Caller, CallStep(c)
  PROVE  EntryAnnounced' /\ FoundHot' /\ NoGhost'
  <1>. USE DEF EInv
  <1>1. CASE ReadRows(c)
    <2>1. /\ call'[c].wasHot = {t \in Unpinned(call[c].targets) : claims[t].live /\ claims[t].val \in Hot}
          /\ call[c].pc = "rows" /\ call[c].targets \subseteq Target
          /\ \A d \in Caller : d # c => call'[d] = call[d]
      BY <1>1 DEF ReadRows, TypeOK, Call
    <2>2. \A t \in call'[c].wasHot : t \in Target /\ HotRow(t)
      <3>1. \A t \in Target : claims[t].cls \in {"absent", "observed", "asserted"}
        BY DEF TypeOK, Row
      <3>. QED BY <2>1, <3>1 DEF Unpinned, Sticky, HotRow, NoGhost
    <2>3. claims' = claims /\ announced' = announced /\ dropped' = dropped
      BY <1>1 DEF ReadRows
    <2>4. \A d \in Caller : Unfired(d) \subseteq Unfired(d)'
      BY <2>1 DEF Unfired, Transitions
    <2>5. \A t \in Target : HotRow(t)' => HotRow(t)
      BY <2>3 DEF HotRow
    <2>6. \A d \in Caller : \A t \in call'[d].wasHot : t \in call[d].wasHot \/ (t \in Target /\ HotRow(t))
      BY <2>1, <2>2
    <2>7. EntryAnnounced' /\ FoundHot'
      BY <2>3, <2>4, <2>5, <2>6, TellStep
    <2>. QED BY <2>3, <2>7 DEF NoGhost
  <1>2. CASE ReadObservations(c)
    <2>1. call[c].pc = "obs" /\ call'[c].wasHot = call[c].wasHot
          /\ \A d \in Caller : d # c => call'[d] = call[d]
      BY <1>2 DEF ReadObservations, TypeOK, Call
    <2>2. claims' = claims /\ announced' = announced /\ dropped' = dropped
      BY <1>2 DEF ReadObservations
    <2>3. Unfired(c) = {}
      BY <2>1 DEF Unfired
    <2>4. EntryAnnounced' /\ FoundHot'
      BY <2>1, <2>2, <2>3, CallsTell
    <2>. QED BY <2>2, <2>4 DEF NoGhost
  <1>3. CASE Write(c)
    <2>. DEFINE T == call[c].targets
    <2>1. /\ call[c].pc = "write" /\ call'[c] = [call[c] EXCEPT !.pc = "fire"]
          /\ \A d \in Caller : d # c => call'[d] = call[d]
          /\ claims' = [t \in Target |-> IF t \in T THEN Upsert(claims[t], call[c].plan[t]) ELSE claims[t]]
          /\ announced' = announced /\ dropped' = dropped
      BY <1>3 DEF Write, TypeOK
    <2>2. /\ call'[c].pc = "fire" /\ call'[c].wasHot = call[c].wasHot
          /\ call'[c].targets = T /\ call'[c].plan = call[c].plan
      BY <2>1 DEF TypeOK, Call
    <2>3. Unfired(c)' = {t \in T : call[c].plan[t] \in Hot /\ t \notin call[c].wasHot}
      BY <2>2 DEF Unfired, Transitions
    <2>4. \A d \in Caller : Unfired(d) \subseteq Unfired(d)'
      <3>1. Unfired(c) = {}
        BY <2>1 DEF Unfired
      <3>. QED BY <2>1, <3>1 DEF Unfired, Transitions
    <2>5. \A t \in Target : HotRow(t)' => HotRow(t) \/ t \in call[c].wasHot \cup Unfired(c)'
      <3>1. SUFFICES ASSUME NEW t \in Target, HotRow(t)', t \in T
                     PROVE  t \in call[c].wasHot \cup Unfired(c)'
        BY <2>1 DEF HotRow
      <3>2. claims'[t].val = call[c].plan[t]
        BY <2>1, <3>1 DEF Upsert
      <3>. QED BY <2>3, <3>1, <3>2 DEF HotRow
    <2>6. EntryAnnounced' /\ FoundHot'
      <3>1. \A d \in Caller : \A t \in call'[d].wasHot : t \in call[d].wasHot
        BY <2>1, <2>2
      <3>2. \A t \in Target : HotRow(t)' =>
              HotRow(t) \/ \E d \in Caller : t \in call[d].wasHot \cup Unfired(d)'
        BY <2>5
      <3>. QED BY <2>1, <2>4, <3>1, <3>2, TellStep
    <2>7. NoGhost'
      <3>1. \A t \in T : t \in Target => claims'[t].cls = "observed"
        BY <2>1 DEF Upsert
      <3>. QED BY <2>1, <3>1 DEF NoGhost
    <2>. QED BY <2>6, <2>7
  <1>4. CASE Fire(c)
    <2>1. /\ call[c].pc = "fire" /\ call'[c].wasHot = call[c].wasHot
          /\ \A d \in Caller : d # c => call'[d] = call[d]
      BY <1>4 DEF Fire, TypeOK, Call
    <2>2. claims' = claims /\ announced \subseteq announced' /\ dropped \subseteq dropped'
          /\ Unfired(c) \subseteq announced' \cup dropped'
      BY <1>4, <2>1 DEF Fire, Unfired
    <2>3. EntryAnnounced' /\ FoundHot'
      BY <2>1, <2>2, CallsTell
    <2>. QED BY <2>2, <2>3 DEF NoGhost
  <1>5. CASE Fail(c)
    <2>1. /\ call[c].pc # "fire" /\ call'[c].wasHot = {}
          /\ \A d \in Caller : d # c => call'[d] = call[d]
          /\ claims' = claims /\ announced' = announced /\ dropped' = dropped
      BY <1>5, HotFields DEF Fail, TypeOK
    <2>2. EntryAnnounced' /\ FoundHot'
      BY <2>1, CallsTell DEF Unfired
    <2>. QED BY <2>1, <2>2 DEF NoGhost
  <1>6. CASE ReadNoRows(c)
    <2>1. /\ call[c].pc = "rows" /\ call'[c].wasHot = call[c].wasHot
          /\ \A d \in Caller : d # c => call'[d] = call[d]
      BY <1>6 DEF ReadNoRows, TypeOK, Call
    <2>2. claims' = claims /\ announced' = announced /\ dropped' = dropped
      BY <1>6 DEF ReadNoRows
    <2>3. EntryAnnounced' /\ FoundHot'
      BY <2>1, <2>2, CallsTell DEF Unfired
    <2>. QED BY <2>2, <2>3 DEF NoGhost
  <1>. QED BY <1>1, <1>2, <1>3, <1>4, <1>5, <1>6 DEF CallStep

LEMMA EngineTells ==
  ASSUME EInv, EngineSweep \/ EngineFinish \/ EngineWrap \/ EngineCrash
  PROVE  EntryAnnounced' /\ FoundHot' /\ NoGhost'
  <1>. USE DEF EInv
  <1>1. claims' = claims
    BY DEF EngineSweep, EngineFinish, EngineWrap, EngineCrash
  <1>2. CASE EngineSweep
    <2>1. \A c \in Caller : call'[c] = call[c] \/ (c \in Target /\ call'[c].wasHot = {})
      <3>1. PICK B : call' = [c \in Caller |->
              IF c \in Target /\ (\E j \in B : j[1] = c) THEN Recompute("rows", {c}, {}) ELSE call[c]]
        BY <1>2 DEF EngineSweep
      <3>. QED BY <3>1, HotFields
    <2>2. \A c \in Target : Unfired(c) = {}
      BY <1>2 DEF EngineSweep, QuietTick, Unfired
    <2>3. announced' = announced /\ dropped' = dropped
      BY <1>2 DEF EngineSweep, history
    <2>. QED BY <1>1, <2>1, <2>2, <2>3, CallsTell DEF NoGhost
  <1>3. CASE EngineFinish
    <2>1. \A c \in Caller : call'[c] = call[c] \/ (c \in Target /\ call'[c].wasHot = {})
      BY <1>3, HotFields DEF EngineFinish
    <2>2. \A c \in Target : Unfired(c) = {}
      BY <1>3 DEF EngineFinish, Unfired
    <2>3. announced' = announced /\ dropped' = dropped
      BY <1>3 DEF EngineFinish, history
    <2>. QED BY <1>1, <2>1, <2>2, <2>3, CallsTell DEF NoGhost
  <1>4. CASE EngineWrap
    <2>1. call' = call /\ announced' = announced /\ dropped' = dropped
      BY <1>4 DEF EngineWrap, history
    <2>. QED BY <1>1, <2>1, CallsTell DEF NoGhost
  <1>5. CASE EngineCrash
    <2>1. \A c \in Caller : call'[c] = call[c] \/ (c \in Target /\ call'[c].wasHot = {})
      BY <1>5, HotFields DEF EngineCrash
    <2>2. announced' = announced /\ dropped \subseteq dropped'
          /\ \A c \in Target : Unfired(c) \subseteq dropped'
      BY <1>5 DEF EngineCrash
    <2>. QED BY <1>1, <2>1, <2>2, CallsTell DEF NoGhost
  <1>. QED BY <1>2, <1>3, <1>4, <1>5

LEMMA WorkerTells ==
  ASSUME EInv, NEW w \in Worker,
         \/ w \in Settler /\ (SettleStart(w) \/ SettleBatch(w))
         \/ Finish(w) \/ Crash(w)
         \/ w \in Retractor /\ (RetractCount(w) \/ RetractNoCount(w) \/ RetractHide(w))
         \/ w \in Recorder /\ \E t \in Target : Record(w, t)
         \/ w \in Retractor /\ \E t \in Target : RetractDelete(w, t)
  PROVE  EntryAnnounced' /\ FoundHot' /\ NoGhost'
  <1>. USE DEF EInv
  <1>1. CASE \/ w \in Settler /\ SettleStart(w)
    <2>1. call' = call /\ claims' = claims /\ announced' = announced /\ dropped' = dropped
      BY <1>1 DEF SettleStart, history
    <2>. QED BY <2>1, CallsTell DEF NoGhost
  <1>2. CASE w \in Settler /\ SettleBatch(w)
    <2>1. PICK T, J : call' = [call EXCEPT ![w] = IF T = {} THEN Idle ELSE Recompute("rows", T, J)]
      BY <1>2 DEF SettleBatch
    <2>2. /\ call[w].pc = "idle" /\ claims' = claims /\ announced' = announced /\ dropped' = dropped
      BY <1>2 DEF SettleBatch, history
    <2>3. /\ call'[w].wasHot = {}
          /\ \A d \in Caller : d # w => call'[d] = call[d]
      BY <2>1, HotFields DEF TypeOK
    <2>. QED BY <2>2, <2>3, CallsTell DEF NoGhost, Unfired
  <1>3. CASE Finish(w)
    <2>1. /\ call[w].pc = "done" /\ claims' = claims /\ announced' = announced /\ dropped' = dropped
      BY <1>3 DEF Finish, history
    <2>2. call'[w].wasHot = {} /\ \A d \in Caller : d # w => call'[d] = call[d]
      BY <1>3, HotFields DEF Finish, TypeOK
    <2>. QED BY <2>1, <2>2, CallsTell DEF NoGhost, Unfired
  <1>4. CASE Crash(w)
    <2>1. claims' = claims /\ announced' = announced /\ dropped' = dropped \cup Unfired(w)
      BY <1>4 DEF Crash
    <2>2. call'[w].wasHot = {} /\ \A d \in Caller : d # w => call'[d] = call[d]
      BY <1>4, HotFields DEF Crash, TypeOK
    <2>. QED BY <2>1, <2>2, CallsTell DEF NoGhost
  <1>5. CASE RetractCount(w) \/ RetractNoCount(w)
    <2>1. call[w].pc = "count" /\ claims' = claims /\ announced' = announced /\ dropped' = dropped
      BY <1>5 DEF RetractCount, RetractNoCount
    <2>2. PICK b \in BOOLEAN : call' = [call EXCEPT ![w].pc = AfterCount(b)]
      BY <1>5 DEF RetractCount, RetractNoCount
    <2>3. call'[w] = [call[w] EXCEPT !.pc = AfterCount(b)] /\ \A d \in Caller : d # w => call'[d] = call[d]
      BY <2>2 DEF TypeOK, Worker, Caller
    <2>4. call'[w].wasHot = call[w].wasHot
      BY <2>3 DEF TypeOK, Call, Worker, Caller
    <2>. QED BY <2>1, <2>3, <2>4, CallsTell DEF NoGhost, Unfired
  <1>6. CASE \E t \in Target : Record(w, t) \/ RetractDelete(w, t)
    <2>1. /\ call[w].pc = "idle" /\ claims' = claims /\ announced' = announced /\ dropped' = dropped
      BY <1>6 DEF Record, Insert, RetractDelete
    <2>2. call'[w].wasHot = {} /\ \A d \in Caller : d # w => call'[d] = call[d]
      BY <1>6, HotFields DEF Record, InlineRecompute, RetractDelete, TypeOK
    <2>. QED BY <2>1, <2>2, CallsTell DEF NoGhost, Unfired
  <1>7. CASE RetractHide(w)
    <2>1. /\ call[w].pc = "hide" /\ announced' = announced /\ dropped' = dropped
          /\ call'[w].wasHot = {} /\ \A d \in Caller : d # w => call'[d] = call[d]
      BY <1>7, HotFields DEF RetractHide, TypeOK
    <2>2. \A t \in Target : /\ claims'[t].val = claims[t].val /\ claims'[t].cls = claims[t].cls
                            /\ claims'[t].live => claims[t].live
      <3>1. TAKE t \in Target
      <3>2. claims'[t] = claims[t] \/ claims'[t] = [claims[t] EXCEPT !.live = FALSE]
        BY <1>7 DEF RetractHide
      <3>3. claims[t] \in Row
        BY DEF TypeOK
      <3>. QED BY <3>2, <3>3, HiddenFields
    <2>3. \A d \in Caller : Unfired(d) \subseteq Unfired(d)'
      BY <2>1 DEF Unfired, Transitions
    <2>4. \A d \in Caller : \A t \in call'[d].wasHot : t \in call[d].wasHot
      BY <2>1
    <2>5. \A t \in Target : HotRow(t)' => HotRow(t)
      BY <2>2 DEF HotRow
    <2>6. EntryAnnounced' /\ FoundHot'
      BY <2>1, <2>3, <2>4, <2>5, TellStep
    <2>. QED BY <2>2, <2>6 DEF NoGhost
  <1>. QED BY <1>1, <1>2, <1>3, <1>4, <1>5, <1>6, <1>7

LEMMA UserTells ==
  ASSUME EInv, NEW t \in Target, Observe(t) \/ Clear(t) \/ \E v \in Value : Assert(t, v)
  PROVE  EntryAnnounced' /\ FoundHot' /\ NoGhost'
  <1>. USE DEF EInv
  <1>1. call' = call /\ announced' = announced /\ dropped' = dropped
    BY DEF Observe, Insert, Clear, Assert
  <1>2. \A u \in Target : /\ HotRow(u)' => HotRow(u)
                          /\ claims'[u].cls = "absent" => ~claims'[u].live
    <2>1. CASE Observe(t)
      BY <2>1 DEF Observe, Insert, HotRow, NoGhost
    <2>2. CASE Clear(t)
      <3>1. claims'[t] = [claims[t] EXCEPT !.live = FALSE] /\ \A u \in Target : u # t => claims'[u] = claims[u]
        BY <2>2 DEF Clear, TypeOK
      <3>2. claims[t] \in Row
        BY DEF TypeOK
      <3>3. claims'[t].val = claims[t].val /\ claims'[t].cls = claims[t].cls /\ claims'[t].live = FALSE
        BY <3>1, <3>2, HiddenFields
      <3>. QED BY <3>1, <3>3 DEF HotRow, NoGhost
    <2>3. CASE \E v \in Value : Assert(t, v)
      <3>1. claims'[t].cls = "asserted" /\ \A u \in Target : u # t => claims'[u] = claims[u]
        BY <2>3 DEF Assert, TypeOK
      <3>. QED BY <3>1 DEF HotRow, NoGhost
    <2>. QED BY <2>1, <2>2, <2>3
  <1>3. \A c \in Caller : Unfired(c) \subseteq Unfired(c)'
    BY <1>1 DEF Unfired, Transitions
  <1>4. EntryAnnounced' /\ FoundHot'
    BY <1>1, <1>2, <1>3, TellStep
  <1>. QED BY <1>2, <1>4 DEF NoGhost

(* Outside a sweep the engine has no call. *)
LEMMA TickStep ==
  ASSUME TypeOK, QuietTick, [Next]_vars
  PROVE  QuietTick'
  <1>1. CASE UNCHANGED vars
    BY <1>1 DEF vars, QuietTick
  <1>2. ASSUME NEW c \in Caller, CallStep(c)  PROVE QuietTick'
    <2>1. call[c].pc # "idle" /\ engine' = engine /\ \A d \in Caller : d # c => call'[d] = call[d]
      BY <1>2 DEF CallStep, ReadRows, ReadNoRows, ReadObservations, Write, Fire, Fail, queue, TypeOK
    <2>. QED BY <2>1 DEF QuietTick
  <1>3. CASE EngineSweep
    BY <1>3 DEF EngineSweep, QuietTick, TypeOK
  <1>4. CASE EngineFinish \/ EngineCrash
    BY <1>4, IdleFields DEF EngineFinish, EngineCrash, QuietTick
  <1>5. CASE EngineWrap
    BY <1>5 DEF EngineWrap, QuietTick
  <1>6. ASSUME NEW t \in Target, Observe(t) \/ Clear(t) \/ \E v \in Value : Assert(t, v)  PROVE QuietTick'
    BY <1>6 DEF Observe, Insert, Clear, Assert, QuietTick, queue
  <1>7. ASSUME NEW w \in Worker,
               \/ w \in Settler /\ (SettleStart(w) \/ SettleBatch(w))
               \/ Finish(w) \/ Crash(w)
               \/ w \in Retractor /\ (RetractCount(w) \/ RetractNoCount(w) \/ RetractHide(w))
               \/ w \in Recorder /\ \E t \in Target : Record(w, t)
               \/ w \in Retractor /\ \E t \in Target : RetractDelete(w, t)
        PROVE  QuietTick'
    <2>1. w \notin Target
      BY ConstantsAssumption
    <2>2. engine' = engine /\ \A d \in Caller : d # w => call'[d] = call[d]
      BY <1>7 DEF SettleStart, SettleBatch, Finish, Crash, RetractCount, RetractNoCount, RetractHide,
                  Record, Insert, RetractDelete, queue, TypeOK
    <2>. QED BY <2>1, <2>2 DEF QuietTick
  <1>. QED BY <1>1, <1>2, <1>3, <1>4, <1>5, <1>6, <1>7 DEF Next, Worker

LEMMA EntryStep == EInv /\ [Next]_vars => EInv'
  <1>. SUFFICES ASSUME EInv, [Next]_vars  PROVE EInv'
    OBVIOUS
  <1>1. TypeOK /\ QuietTick
    BY DEF EInv
  <1>2. TypeOK'
    BY <1>1, TypeStep
  <1>3. QuietTick'
    BY <1>1, TickStep
  <1>4. EntryAnnounced' /\ FoundHot' /\ NoGhost'
    <2>1. CASE UNCHANGED vars
      BY <2>1 DEF vars, EInv, EntryAnnounced, FoundHot, NoGhost, Told, Unfired, Transitions
    <2>2. CASE Next
      BY <2>2, CallTells, EngineTells, WorkerTells, UserTells DEF Next
    <2>. QED BY <2>1, <2>2
  <1>. QED BY <1>2, <1>3, <1>4 DEF EInv

(* The arrival of a claim at a hot value is announced, or about to be, or its
   announcement failed or died: however many recomputes of one target overlap, no
   two of them each leave the event to the other. *)
THEOREM EntriesAnnounced == Spec => []EntryAnnounced
  <1>1. Init => EInv
    BY TypeInit, HotFields DEF Init, EInv, EntryAnnounced, FoundHot, NoGhost, QuietTick, NoRow, Idle
  <1>2. EInv => EntryAnnounced
    BY DEF EInv
  <1>. QED BY <1>1, <1>2, EntryStep, PTL DEF Spec

-----------------------------------------------------------------------------
(* Rescores *)

(* Why a follow-up stays owed: without a job for it, and without a retraction, the
   claim is what the log says it is, and a write of the same changes nothing. *)

(* Changes of the log are numbered, each by its own number. *)
Numbered ==
  \A t \in Target :
    /\ \A o \in observations[t] : o.n \in 1..ver[t]
    /\ \A o, p \in observations[t] : o.n = p.n => o = p

RetractionsShow == \A w \in Retractor, t \in Target : Healing(w, t) => Retracted(t)

(* A live assertion is protected, or known to have raced. *)
Pinned == \A t \in Target : Sticky(claims[t]) => fixed[t] # NoValue \/ t \in blind

Scored(t) == claims[t].live /\ claims[t].cls = "observed"
Queued(t) == JobsOf(t) # {} \/ t \in engine.owed

UInv ==
  /\ FInv /\ AInv
  /\ Numbered /\ RetractionsShow /\ Pinned
  /\ unscored \subseteq FollowUp
  /\ FollowUpOwed

(* A step that leaves the log alone, makes no claim readable that was not, and takes
   no follow-up off the queue unless it puts it into the tick's hands. *)
LEMMA OweStep ==
  ASSUME UInv, UNCHANGED <<observations, ver>>,
         unscored' \subseteq unscored, dropped \subseteq dropped',
         \A t \in Target : lost[t] => lost'[t],
         \A t \in unscored' : Scored(t)' => Scored(t) /\ (t \in blind => t \in blind'),
         \A t \in unscored' : Queued(t) => Queued(t)' \/ t \in dropped'
  PROVE  FollowUpOwed' /\ (unscored \subseteq FollowUp)'
  <1>1. unscored \subseteq Target
    BY DEF UInv, FInv, TypeOK
  <1>2. \A t \in Target : Decided(t)' = Decided(t) /\ Retracted(t)' = Retracted(t)
    BY DEF Decided, Retracted
  <1>3. SUFFICES ASSUME NEW t \in unscored', Scored(t)'
                 PROVE  Queued(t)' \/ lost'[t] \/ ~Decided(t)' \/ Retracted(t)' \/ t \in blind' \cup dropped'
    BY DEF FollowUpOwed, Scored, Queued, UInv
  <1>4. Queued(t) \/ lost[t] \/ ~Decided(t) \/ Retracted(t) \/ t \in blind \cup dropped
    BY <1>3 DEF UInv, FollowUpOwed, Scored, Queued
  <1>. QED BY <1>1, <1>2, <1>3, <1>4

(* Nothing in the queue, in the engine or in the claims moves. *)
LEMMA OweStill ==
  ASSUME UInv, UNCHANGED <<observations, ver, claims, claim_jobs, unscored>>, engine'.owed = engine.owed,
         dropped \subseteq dropped', blind \subseteq blind', \A t \in Target : lost[t] => lost'[t]
  PROVE  FollowUpOwed' /\ (unscored \subseteq FollowUp)'
  BY OweStep DEF Scored, Queued, JobsOf

LEMMA UpsertFields ==
  ASSUME NEW row, NEW v
  PROVE  /\ Upsert(row, v).cls = "observed" /\ Upsert(row, v).val = v
         /\ Upsert(row, v).live <=> row.live \/ row.cls = "absent"
  BY Zenon DEF Upsert

(* The write is the hard step: with no job left the change it would undo was covered. *)
LEMMA OweWrite ==
  ASSUME UInv, NEW c \in Caller, Write(c)
  PROVE  FollowUpOwed' /\ (unscored \subseteq FollowUp)'
  <1>. DEFINE T == call[c].targets
              read == call[c].read
              plan == call[c].plan
  <1>1. /\ call[c].pc = "write" /\ T \subseteq Target /\ read \in [Target -> Nat]
        /\ UNCHANGED <<observations, ver, claim_jobs, engine, blind, dropped>>
    BY DEF Write, queue, UInv, FInv, TypeOK, Call
  <1>2. /\ \A t \in Target : /\ lost[t] => lost'[t]
                             /\ t \in T /\ read[t] < covered[t] => lost'[t]
                             /\ t \in T => claims'[t] = Upsert(claims[t], plan[t])
                             /\ t \notin T => claims'[t] = claims[t]
        /\ unscored' = unscored \cup {t \in T \cap FollowUp : claims[t].val # plan[t]}
    BY DEF Write
  <1>3. \A t \in T : /\ read[t] <= ver[t]
                     /\ read[t] = ver[t] => plan[t] \in Winners(observations[t])
                     /\ PastRead(c, t)
    BY <1>1 DEF UInv, FInv, Planned, PastRead
  <1>4. \A t \in Target : ver[t] \in Nat /\ covered[t] \in Nat /\ covered[t] <= ver[t]
    BY DEF UInv, FInv, TypeOK, Bounded
  <1>5. \A t \in Target : Decided(t)' = Decided(t) /\ Retracted(t)' = Retracted(t) /\ Queued(t)' = Queued(t)
    BY <1>1 DEF Decided, Retracted, Queued, JobsOf
  <1>6. unscored \subseteq FollowUp /\ FollowUp \subseteq Target
    BY ConstantsAssumption DEF UInv
  <1>. HIDE DEF T, read, plan
  <1>7. (unscored \subseteq FollowUp)'
    BY <1>2, <1>6
  <1>8. SUFFICES ASSUME NEW t \in unscored', Scored(t)', ~lost'[t], Decided(t), ~Retracted(t),
                        t \notin blind, t \notin dropped, ~Queued(t)
                 PROVE  FALSE
    BY <1>1, <1>2, <1>5, <1>6, <1>7 DEF FollowUpOwed, Scored, Queued
  <1>9. t \in Target /\ ~lost[t]
    BY <1>2, <1>6, <1>7, <1>8
  <1>10. CASE t \notin T
    <2>1. t \in unscored /\ Scored(t)
      BY <1>2, <1>8, <1>9, <1>10 DEF Scored
    <2>. QED BY <2>1, <1>8, <1>9 DEF UInv, FollowUpOwed, Scored, Queued
  <1>11. CASE t \in T
    <2>1. <<t, ver[t]>> \notin claim_jobs
      BY <1>8 DEF Queued, JobsOf
    <2>2. \A w \in Retractor : ~Heals(w, t)
      BY <1>8, <1>9 DEF UInv, RetractionsShow, Heals
    <2>3. covered[t] = ver[t]
      BY <1>4, <1>9, <2>1, <2>2 DEF UInv, FInv, Owed
    <2>4. read[t] = ver[t]
      BY <1>1, <1>2, <1>3, <1>4, <1>8, <1>9, <1>11, <2>3
    <2>5. plan[t] \in Winners(observations[t])
      BY <1>3, <1>11, <2>4
    <2>6. Settled(t)
      BY <1>9, <2>3 DEF UInv, FInv, Fresh
    <2>7. Stated(observations[t]) # {}
      BY <2>5 DEF Winners, Newest
    <2>8. claims'[t].live => claims[t].live \/ claims[t].cls = "absent"
      <3>1. claims'[t] = Upsert(claims[t], plan[t])
        BY <1>2, <1>9, <1>11
      <3>2. Upsert(claims[t], plan[t]).live <=> claims[t].live \/ claims[t].cls = "absent"
        BY UpsertFields
      <3>. QED BY <3>1, <3>2
    <2>9. claims[t].cls # "asserted"
      <3>1. SUFFICES ASSUME claims[t].cls = "asserted"  PROVE FALSE
        OBVIOUS
      <3>2. Sticky(claims[t])
        BY <3>1, <2>8, <1>8 DEF Sticky, Scored
      <3>3. Protected(t)
        BY <3>2, <1>8, <1>9 DEF UInv, Pinned, Protected
      <3>. QED BY <3>3, <1>3, <1>9, <1>11 DEF UInv, AInv, NoRace
    <2>10. claims[t].cls = "observed" /\ claims[t].val \in Winners(observations[t])
      BY <2>6, <2>7, <2>9 DEF Settled
    <2>11. claims[t].val = plan[t]
      BY <1>8, <2>5, <2>10 DEF Decided
    <2>12. t \in unscored /\ Scored(t)
      BY <1>2, <1>8, <2>8, <2>10, <2>11 DEF Scored
    <2>. QED BY <2>12, <1>8, <1>9 DEF UInv, FollowUpOwed, Scored, Queued
  <1>. QED BY <1>10, <1>11

(* A call's step keeps what is owed. *)
LEMMA CallOwes ==
  ASSUME UInv, NEW c \in Caller, CallStep(c)
  PROVE  FollowUpOwed' /\ (unscored \subseteq FollowUp)'
  <1>1. CASE Write(c)
    BY <1>1, OweWrite
  <1>2. CASE ReadRows(c) \/ ReadNoRows(c) \/ ReadObservations(c) \/ Fire(c)
    <2>1. /\ UNCHANGED <<observations, ver, claims, claim_jobs, unscored, engine, lost>>
          /\ dropped \subseteq dropped' /\ blind \subseteq blind'
      BY <1>2 DEF ReadRows, ReadNoRows, ReadObservations, Fire, queue
    <2>. QED BY <2>1, OweStill
  <1>3. CASE Fail(c)
    <2>1. UNCHANGED <<observations, ver, claims, claim_jobs, unscored, engine, dropped, blind>>
      BY <1>3 DEF Fail, queue
    <2>2. \A t \in Target : lost[t] => lost'[t]
      BY <1>3 DEF Fail
    <2>. QED BY <2>1, <2>2, OweStill
  <1>. QED BY <1>1, <1>2, <1>3 DEF CallStep

(* What the engine takes off the queue it puts into its own hands, and what it loses
   from there is dropped. *)
LEMMA EngineOwes ==
  ASSUME UInv, EngineSweep \/ EngineFinish \/ EngineWrap \/ EngineCrash
  PROVE  FollowUpOwed' /\ (unscored \subseteq FollowUp)'
  <1>1. CASE EngineSweep
    <2>1. engine'.owed = engine.owed
      BY <1>1 DEF EngineSweep, UInv, FInv, TypeOK
    <2>2. /\ UNCHANGED <<observations, ver, claims, claim_jobs, unscored, lost, blind, dropped>>
      BY <1>1 DEF EngineSweep, history
    <2>. QED BY <2>1, <2>2, OweStill
  <1>2. CASE EngineFinish
    <2> DEFINE succeeded == {t \in Target : call[t].pc = "done"}
    <2>1. /\ UNCHANGED <<observations, ver, claims, unscored, lost, blind, dropped>>
          /\ engine'.owed = engine.owed \cup (succeeded \cap FollowUp)
          /\ claim_jobs' = claim_jobs \ SweptJobs(succeeded) \/ claim_jobs' = claim_jobs
      BY <1>2 DEF EngineFinish, history
    <2>2. \A t \in unscored : t \in FollowUp /\ t \in Target
      BY ConstantsAssumption DEF UInv
    <2>3. \A t \in unscored : Queued(t) => Queued(t)'
      <3>1. SUFFICES ASSUME NEW t \in unscored, Queued(t), t \notin engine'.owed
                     PROVE  \E j \in claim_jobs' : j[1] = t
        BY DEF Queued, JobsOf
      <3>2. t \notin engine.owed /\ t \notin succeeded
        BY <2>1, <2>2, <3>1
      <3>3. PICK j \in claim_jobs : j[1] = t
        BY <3>1, <3>2 DEF Queued, JobsOf
      <3>4. j \notin SweptJobs(succeeded)
        BY <3>2, <3>3 DEF SweptJobs
      <3>. QED BY <2>1, <3>3, <3>4
    <2>. QED BY <2>1, <2>3, OweStep DEF Scored
  <1>3. CASE EngineWrap
    <2>1. /\ UNCHANGED <<observations, ver, claims, claim_jobs, lost, blind, dropped>>
          /\ unscored' = unscored \ engine.owed
      BY <1>3 DEF EngineWrap, history
    <2>2. \A t \in unscored' : Queued(t) => Queued(t)'
      BY <2>1 DEF Queued, JobsOf
    <2>. QED BY <2>1, <2>2, OweStep DEF Scored
  <1>4. CASE EngineCrash
    <2>1. /\ UNCHANGED <<observations, ver, claims, claim_jobs, unscored, lost, blind>>
          /\ dropped \subseteq dropped' /\ engine.owed \subseteq dropped'
      BY <1>4 DEF EngineCrash
    <2>2. \A t \in unscored' : Queued(t) => Queued(t)' \/ t \in dropped'
      BY <2>1 DEF Queued, JobsOf
    <2>. QED BY <2>1, <2>2, OweStep DEF Scored
  <1>. QED BY <1>1, <1>2, <1>3, <1>4

(* A settle never deletes a follow-up's job. *)
LEMMA WorkerOwes ==
  ASSUME UInv, NEW w \in Worker,
         \/ w \in Settler /\ (SettleStart(w) \/ SettleBatch(w))
         \/ Finish(w) \/ Crash(w)
         \/ w \in Retractor /\ (RetractCount(w) \/ RetractNoCount(w) \/ RetractHide(w))
  PROVE  FollowUpOwed' /\ (unscored \subseteq FollowUp)'
  <1>1. CASE w \in Settler /\ (SettleStart(w) \/ SettleBatch(w))
    <2>1. UNCHANGED <<observations, ver, claims, claim_jobs, unscored, engine, lost, blind, dropped>>
      BY <1>1 DEF SettleStart, SettleBatch, history
    <2>. QED BY <2>1, OweStill
  <1>2. CASE Finish(w)
    <2>1. /\ UNCHANGED <<observations, ver, claims, unscored, engine, lost, blind, dropped>>
          /\ claim_jobs' = claim_jobs \ SettledJobs(w) \/ claim_jobs' = claim_jobs
      BY <1>2 DEF Finish, history
    <2>2. \A t \in unscored' : Queued(t) => Queued(t)'
      <3>1. SUFFICES ASSUME NEW t \in unscored, Queued(t), t \notin engine.owed
                     PROVE  \E j \in claim_jobs' : j[1] = t
        BY <2>1 DEF Queued, JobsOf
      <3>2. PICK j \in claim_jobs : j[1] = t
        BY <3>1 DEF Queued, JobsOf
      <3>3. j \notin SettledJobs(w)
        BY <3>2 DEF SettledJobs, UInv
      <3>. QED BY <2>1, <3>2, <3>3
    <2>. QED BY <2>1, <2>2, OweStep DEF Scored
  <1>3. CASE Crash(w)
    <2>1. /\ UNCHANGED <<observations, ver, claims, claim_jobs, unscored, engine, blind>>
          /\ dropped \subseteq dropped'
      BY <1>3 DEF Crash
    <2>2. \A t \in Target : lost[t] => lost'[t]
      BY <1>3 DEF Crash
    <2>. QED BY <2>1, <2>2, OweStill
  <1>4. CASE RetractCount(w)
    <2>1. UNCHANGED <<observations, ver, claims, claim_jobs, unscored, engine, lost, blind, dropped>>
      BY <1>4 DEF RetractCount, queue
    <2>. QED BY <2>1, OweStill
  <1>5. CASE RetractNoCount(w)
    <2>1. UNCHANGED <<observations, ver, claims, claim_jobs, unscored, engine, blind, dropped>>
      BY <1>5 DEF RetractNoCount, queue
    <2>2. \A t \in Target : lost[t] => lost'[t]
      BY <1>5 DEF RetractNoCount
    <2>. QED BY <2>1, <2>2, OweStill
  <1>6. CASE RetractHide(w)
    <2>1. UNCHANGED <<observations, ver, claim_jobs, unscored, engine, lost, blind, dropped>>
      BY <1>6 DEF RetractHide, queue
    <2>2. \A t \in Target : Scored(t)' => Scored(t)
      <3>1. SUFFICES ASSUME NEW t \in Target, claims'[t] # claims[t]  PROVE ~Scored(t)'
        BY DEF Scored
      <3>2. claims'[t] = [claims[t] EXCEPT !.live = FALSE] /\ claims[t] \in Row
        BY <1>6, <3>1 DEF RetractHide, UInv, FInv, TypeOK
      <3>3. claims'[t].live = FALSE
        BY <3>2, HiddenFields
      <3>. QED BY <3>3 DEF Scored
    <2>3. unscored \subseteq Target
      BY DEF UInv, FInv, TypeOK
    <2>. QED BY <2>1, <2>2, <2>3, OweStep DEF Queued, JobsOf
  <1>. QED BY <1>1, <1>2, <1>3, <1>4, <1>5, <1>6

(* What a user sets or clears is not what scoring reads. *)
LEMMA UserOwes ==
  ASSUME UInv, NEW t \in Target, Clear(t) \/ \E v \in Value : Assert(t, v)
  PROVE  FollowUpOwed' /\ (unscored \subseteq FollowUp)'
  <1>1. UNCHANGED <<observations, ver, claim_jobs, unscored, engine, lost, dropped>>
    BY DEF Clear, Assert, queue
  <1>2. \A u \in Target : Scored(u)' => u # t
    <2>1. CASE Clear(t)
      <3>1. claims'[t] = [claims[t] EXCEPT !.live = FALSE] /\ claims[t] \in Row
        BY <2>1 DEF Clear, UInv, FInv, TypeOK
      <3>2. claims'[t].live = FALSE
        BY <3>1, HiddenFields
      <3>. QED BY <3>2 DEF Scored
    <2>2. CASE \E v \in Value : Assert(t, v)
      <3>1. claims'[t].cls = "asserted"
        BY <2>2 DEF Assert, UInv, FInv, TypeOK
      <3>. QED BY <3>1 DEF Scored
    <2>. QED BY <2>1, <2>2
  <1>3. \A u \in Target : u # t => claims'[u] = claims[u] /\ (u \in blind => u \in blind')
    BY DEF Clear, Assert, UInv, FInv, TypeOK
  <1>4. unscored \subseteq Target
    BY DEF UInv, FInv, TypeOK
  <1>. QED BY <1>1, <1>2, <1>3, <1>4, OweStep DEF Scored, Queued, JobsOf

(* A change of the log: an insert queues its job, a retraction shows. *)
LEMMA LogOwes ==
  ASSUME UInv, NEW t \in Target,
         UNCHANGED <<claims, unscored, engine, lost, blind, dropped>>,
         claim_jobs \subseteq claim_jobs',
         \A u \in Target : u # t => observations'[u] = observations[u] /\ ver'[u] = ver[u],
         Queued(t)' \/ Retracted(t)'
  PROVE  FollowUpOwed' /\ (unscored \subseteq FollowUp)'
  <1>1. (unscored \subseteq FollowUp)' /\ unscored \subseteq Target
    BY DEF UInv, FInv, TypeOK
  <1>2. SUFFICES ASSUME NEW u \in unscored, Scored(u)
                 PROVE  Queued(u)' \/ lost[u] \/ ~Decided(u)' \/ Retracted(u)' \/ u \in blind \cup dropped
    BY <1>1 DEF FollowUpOwed, Scored, Queued
  <1>3. Queued(u) \/ lost[u] \/ ~Decided(u) \/ Retracted(u) \/ u \in blind \cup dropped
    BY <1>2 DEF UInv, FollowUpOwed, Scored, Queued
  <1>4. Queued(u) => Queued(u)'
    BY DEF Queued, JobsOf
  <1>5. u # t => Decided(u)' = Decided(u) /\ Retracted(u)' = Retracted(u)
    BY <1>1 DEF Decided, Retracted, Winners, Newest
  <1>. QED BY <1>3, <1>4, <1>5

(* A retraction's call never starts but by removing an observation. *)
LEMMA LogStill ==
  ASSUME UInv, UNCHANGED <<observations, ver>>,
         \A w \in Retractor, t \in Target : Healing(w, t)' => Healing(w, t)
  PROVE  Numbered' /\ RetractionsShow'
  BY DEF UInv, Numbered, RetractionsShow, Retracted

LEMMA CallHeals ==
  ASSUME TypeOK, NEW c \in Caller, CallStep(c)
  PROVE  \A w \in Retractor, t \in Target : Healing(w, t)' => Healing(w, t)
  <1>1. \A d \in Caller : d # c => call'[d] = call[d]
    BY DEF CallStep, ReadRows, ReadNoRows, ReadObservations, Write, Fire, Fail, TypeOK
  <1>2. call'[c].pc \in {"count", "rows", "obs", "write"} =>
          call[c].pc \in {"rows", "obs"} /\ call'[c].targets \subseteq call[c].targets
    <2>1. CASE ReadRows(c)
      BY <2>1 DEF ReadRows, TypeOK, Call, Unpinned
    <2>2. CASE ReadNoRows(c)
      BY <2>2 DEF ReadNoRows, TypeOK, Call
    <2>3. CASE ReadObservations(c)
      BY <2>3 DEF ReadObservations, TypeOK, Call
    <2>4. CASE Write(c) \/ Fire(c)
      BY <2>4 DEF Write, Fire, TypeOK, Call
    <2>5. CASE Fail(c)
      BY <2>5, IdleFields, RecomputeFields DEF Fail, TypeOK
    <2>. QED BY <2>1, <2>2, <2>3, <2>4, <2>5 DEF CallStep
  <1>. QED BY <1>1, <1>2 DEF Healing

LEMMA EngineHeals ==
  ASSUME TypeOK, EngineSweep \/ EngineFinish \/ EngineWrap \/ EngineCrash
  PROVE  \A w \in Retractor, t \in Target : Healing(w, t)' => Healing(w, t)
  <1>1. \A w \in Retractor : w \notin Target
    BY ConstantsAssumption
  <1>2. \A w \in Retractor : call'[w] = call[w]
    BY <1>1 DEF EngineSweep, EngineFinish, EngineWrap, EngineCrash
  <1>. QED BY <1>2 DEF Healing

LEMMA WorkerHeals ==
  ASSUME TypeOK, NEW v \in Worker,
         \/ v \in Settler /\ (SettleStart(v) \/ SettleBatch(v))
         \/ Finish(v) \/ Crash(v)
         \/ v \in Retractor /\ (RetractCount(v) \/ RetractNoCount(v) \/ RetractHide(v))
  PROVE  \A w \in Retractor, t \in Target : Healing(w, t)' => Healing(w, t)
  <1>1. \A d \in Caller : d # v => call'[d] = call[d]
    BY DEF SettleStart, SettleBatch, Finish, Crash, RetractCount, RetractNoCount, RetractHide, TypeOK
  <1>2. v \in Retractor /\ call'[v].pc \in {"count", "rows", "obs", "write"} =>
          call[v].pc = "count" /\ call'[v].targets = call[v].targets
    <2>1. CASE v \in Settler /\ (SettleStart(v) \/ SettleBatch(v))
      BY <2>1, ConstantsAssumption
    <2>2. CASE Finish(v) \/ Crash(v)
      BY <2>2, IdleFields DEF Finish, Crash, TypeOK
    <2>3. CASE RetractCount(v)
      BY <2>3 DEF RetractCount, TypeOK, Call
    <2>4. CASE RetractNoCount(v)
      BY <2>4 DEF RetractNoCount, TypeOK, Call
    <2>5. CASE RetractHide(v)
      BY <2>5, IdleFields DEF RetractHide, TypeOK
    <2>. QED BY <2>1, <2>2, <2>3, <2>4, <2>5
  <1>. QED BY <1>1, <1>2 DEF Healing

(* Inserts take the next number: what is missing stays missing. *)
LEMMA InsertNumbers ==
  ASSUME UInv, NEW t \in Target, NEW at \in Time, NEW v \in Value \cup {NoValue}, Insert(t, at, v),
         \A w \in Retractor : call'[w] = call[w]
  PROVE  Numbered' /\ RetractionsShow'
  <1>. DEFINE new == [n |-> ver[t] + 1, at |-> at, val |-> v]
  <1>1. /\ ver[t] \in Nat /\ ver'[t] = ver[t] + 1 /\ new.n = ver[t] + 1
        /\ observations'[t] = observations[t] \cup {new}
        /\ \A u \in Target : u # t => observations'[u] = observations[u] /\ ver'[u] = ver[u]
    BY DEF Insert, UInv, FInv, TypeOK
  <1>. HIDE DEF new
  <1>2. /\ \A o \in observations[t] : o.n \in 1..ver[t]
        /\ \A o, p \in observations[t] : o.n = p.n => o = p
    BY DEF UInv, Numbered
  <1>3. /\ \A o \in observations'[t] : o.n \in 1..ver'[t]
        /\ \A o, p \in observations'[t] : o.n = p.n => o = p
    BY <1>1, <1>2
  <1>4. Numbered'
    BY <1>1, <1>3 DEF UInv, Numbered
  <1>5. \A u \in Target : Retracted(u) => Retracted(u)'
    <2>1. ASSUME Retracted(t)  PROVE Retracted(t)'
      <3>1. PICK n \in 1..ver[t] : \A o \in observations[t] : o.n # n
        BY <2>1 DEF Retracted
      <3>2. n \in 1..ver'[t] /\ \A o \in observations'[t] : o.n # n
        BY <1>1, <3>1
      <3>. QED BY <3>2 DEF Retracted
    <2>. QED BY <1>1, <2>1 DEF Retracted
  <1>6. RetractionsShow'
    BY <1>5 DEF UInv, RetractionsShow, Healing
  <1>. QED BY <1>4, <1>6

(* A removed observation leaves its number empty. *)
LEMMA DeleteNumbers ==
  ASSUME UInv, NEW w \in Retractor, NEW t \in Target, RetractDelete(w, t)
  PROVE  Numbered' /\ RetractionsShow' /\ Retracted(t)'
  <1>1. PICK o \in observations[t] : observations' = [observations EXCEPT ![t] = @ \ {o}]
    BY DEF RetractDelete
  <1>2. /\ ver[t] \in Nat /\ ver'[t] = ver[t] + 1
        /\ observations'[t] = observations[t] \ {o}
        /\ \A u \in Target : u # t => observations'[u] = observations[u] /\ ver'[u] = ver[u]
    BY <1>1 DEF RetractDelete, UInv, FInv, TypeOK
  <1>3. /\ \A p \in observations[t] : p.n \in 1..ver[t]
        /\ \A p, q \in observations[t] : p.n = q.n => p = q
    BY DEF UInv, Numbered
  <1>4. Numbered'
    <2>1. /\ \A p \in observations'[t] : p.n \in 1..ver'[t]
          /\ \A p, q \in observations'[t] : p.n = q.n => p = q
      BY <1>2, <1>3
    <2>. QED BY <1>2, <2>1 DEF UInv, Numbered
  <1>5. Retracted(t)'
    <2>1. o.n \in 1..ver'[t] /\ \A p \in observations'[t] : p.n # o.n
      BY <1>2, <1>3
    <2>. QED BY <2>1 DEF Retracted
  <1>6. \A u \in Target : Retracted(u) => Retracted(u)'
    BY <1>2, <1>5 DEF Retracted
  <1>7. /\ call'[w].targets = {t}
        /\ \A c \in Caller : c # w => call'[c] = call[c]
    BY RecomputeFields DEF RetractDelete, UInv, FInv, TypeOK
  <1>8. RetractionsShow'
    BY <1>5, <1>6, <1>7 DEF UInv, RetractionsShow, Healing
  <1>. QED BY <1>4, <1>5, <1>8

(* Only a user's step makes a row sticky, and what it sets is fixed or raced. *)
LEMMA PinStep ==
  ASSUME UInv, Next  PROVE Pinned'
  <1>1. SUFFICES ASSUME NEW t \in Target, Sticky(claims'[t])
                 PROVE  fixed'[t] # NoValue \/ t \in blind'
    BY DEF Pinned
  <1>2. ASSUME claims'[t] = claims[t], fixed'[t] = fixed[t], t \in blind => t \in blind'
        PROVE  fixed'[t] # NoValue \/ t \in blind'
    BY <1>1, <1>2 DEF UInv, Pinned
  <1>3. ASSUME NEW u \in Target, NEW v \in Value, Assert(u, v)
        PROVE  fixed'[t] # NoValue \/ t \in blind'
    <2>1. CASE u = t
      BY <1>3, <2>1, ConstantsAssumption DEF Assert, UInv, FInv, TypeOK
    <2>2. CASE u # t
      BY <1>2, <1>3, <2>2 DEF Assert, UInv, FInv, TypeOK
    <2>. QED BY <2>1, <2>2
  <1>4. ASSUME NEW u \in Target, Clear(u)  PROVE fixed'[t] # NoValue \/ t \in blind'
    <2>1. u # t
      <3>1. SUFFICES ASSUME u = t  PROVE FALSE
        OBVIOUS
      <3>2. claims'[t] = [claims[t] EXCEPT !.live = FALSE] /\ claims[t] \in Row
        BY <1>4, <3>1 DEF Clear, UInv, FInv, TypeOK
      <3>3. claims'[t].live = FALSE
        BY <3>2, HiddenFields
      <3>. QED BY <1>1, <3>3 DEF Sticky
    <2>. QED BY <1>2, <1>4, <2>1 DEF Clear, UInv, FInv, TypeOK
  <1>5. ASSUME NEW c \in Caller, CallStep(c)  PROVE fixed'[t] # NoValue \/ t \in blind'
    <2>1. fixed' = fixed /\ blind \subseteq blind'
      BY <1>5 DEF CallStep, ReadRows, ReadNoRows, ReadObservations, Write, Fire, Fail
    <2>2. claims'[t] = claims[t]
      <3>1. CASE Write(c)
        <4>1. claims'[t] = IF t \in call[c].targets THEN Upsert(claims[t], call[c].plan[t]) ELSE claims[t]
          BY <3>1 DEF Write
        <4>2. ~Sticky(Upsert(claims[t], call[c].plan[t]))
          BY UpsertFields DEF Sticky
        <4>. QED BY <1>1, <4>1, <4>2
      <3>2. CASE ReadRows(c) \/ ReadNoRows(c) \/ ReadObservations(c) \/ Fire(c) \/ Fail(c)
        BY <3>2 DEF ReadRows, ReadNoRows, ReadObservations, Fire, Fail
      <3>. QED BY <1>5, <3>1, <3>2 DEF CallStep
    <2>. QED BY <1>2, <2>1, <2>2
  <1>6. ASSUME NEW w \in Retractor, RetractHide(w)  PROVE fixed'[t] # NoValue \/ t \in blind'
    <2>1. blind' = blind
      BY <1>6 DEF RetractHide
    <2>2. CASE claims' = claims /\ fixed' = fixed
      BY <1>2, <2>1, <2>2
    <2>3. CASE claims' = [u \in Target |->
                 IF u \in call[w].targets THEN [claims[u] EXCEPT !.live = FALSE] ELSE claims[u]]
               /\ fixed' = [u \in Target |-> IF u \in call[w].targets THEN NoValue ELSE fixed[u]]
      <3>1. t \notin call[w].targets
        <4>1. SUFFICES ASSUME t \in call[w].targets  PROVE FALSE
          OBVIOUS
        <4>2. claims'[t] = [claims[t] EXCEPT !.live = FALSE] /\ claims[t] \in Row
          BY <2>3, <4>1 DEF UInv, FInv, TypeOK
        <4>3. claims'[t].live = FALSE
          BY <4>2, HiddenFields
        <4>. QED BY <1>1, <4>3 DEF Sticky
      <3>. QED BY <1>2, <2>1, <2>3, <3>1
    <2>. QED BY <1>6, <2>2, <2>3 DEF RetractHide
  <1>7. ASSUME UNCHANGED <<claims, fixed, blind>>  PROVE fixed'[t] # NoValue \/ t \in blind'
    BY <1>2, <1>7
  <1>8. EngineSweep \/ EngineFinish \/ EngineWrap \/ EngineCrash => UNCHANGED <<claims, fixed, blind>>
    BY DEF EngineSweep, EngineFinish, EngineWrap, EngineCrash, history
  <1>9. ASSUME NEW w \in Worker, \/ w \in Settler /\ (SettleStart(w) \/ SettleBatch(w))
                                 \/ Finish(w) \/ Crash(w)
        PROVE  UNCHANGED <<claims, fixed, blind>>
    BY <1>9 DEF SettleStart, SettleBatch, Finish, Crash, history
  <1>10. ASSUME NEW w, NEW u \in Target,
                Observe(u) \/ Record(w, u) \/ RetractDelete(w, u) \/ RetractCount(w) \/ RetractNoCount(w)
         PROVE  UNCHANGED <<claims, fixed, blind>>
    BY <1>10 DEF Observe, Record, Insert, RetractDelete, RetractCount, RetractNoCount
  <1>. QED BY <1>3, <1>4, <1>5, <1>6, <1>7, <1>8, <1>9, <1>10 DEF Next

LEMMA RescoreStep == UInv /\ [Next]_vars => UInv'
  <1>. SUFFICES ASSUME UInv, [Next]_vars  PROVE UInv'
    OBVIOUS
  <1>1. FInv' /\ AInv'
    BY FreshStep, AssertionStep DEF UInv
  <1>2. SUFFICES Numbered' /\ RetractionsShow' /\ Pinned' /\ (unscored \subseteq FollowUp)' /\ FollowUpOwed'
    BY <1>1 DEF UInv
  <1>3. TypeOK
    BY DEF UInv, FInv
  <1>4. CASE UNCHANGED vars
    BY <1>4, OweStill DEF vars, UInv, Numbered, RetractionsShow, Retracted, Healing, Pinned
  <1>5. ASSUME Next  PROVE Pinned'
    BY <1>5, PinStep
  <1>6. ASSUME NEW c \in Caller, CallStep(c)
        PROVE  Numbered' /\ RetractionsShow' /\ (unscored \subseteq FollowUp)' /\ FollowUpOwed'
    <2>1. UNCHANGED <<observations, ver>>
      BY <1>6 DEF CallStep, ReadRows, ReadNoRows, ReadObservations, Write, Fire, Fail
    <2>. QED BY <1>3, <1>6, <2>1, CallHeals, LogStill, CallOwes
  <1>7. ASSUME EngineSweep \/ EngineFinish \/ EngineWrap \/ EngineCrash
        PROVE  Numbered' /\ RetractionsShow' /\ (unscored \subseteq FollowUp)' /\ FollowUpOwed'
    <2>1. UNCHANGED <<observations, ver>>
      BY <1>7 DEF EngineSweep, EngineFinish, EngineWrap, EngineCrash, history
    <2>. QED BY <1>3, <1>7, <2>1, EngineHeals, LogStill, EngineOwes
  <1>8. ASSUME NEW w \in Worker,
               \/ w \in Settler /\ (SettleStart(w) \/ SettleBatch(w))
               \/ Finish(w) \/ Crash(w)
               \/ w \in Retractor /\ (RetractCount(w) \/ RetractNoCount(w) \/ RetractHide(w))
        PROVE  Numbered' /\ RetractionsShow' /\ (unscored \subseteq FollowUp)' /\ FollowUpOwed'
    <2>1. UNCHANGED <<observations, ver>>
      BY <1>8 DEF SettleStart, SettleBatch, Finish, Crash, RetractCount, RetractNoCount, RetractHide, history
    <2>. QED BY <1>3, <1>8, <2>1, WorkerHeals, LogStill, WorkerOwes
  <1>9. ASSUME NEW t \in Target, Clear(t) \/ \E v \in Value : Assert(t, v)
        PROVE  Numbered' /\ RetractionsShow' /\ (unscored \subseteq FollowUp)' /\ FollowUpOwed'
    <2>1. UNCHANGED <<observations, ver, call>>
      BY <1>9 DEF Clear, Assert
    <2>. QED BY <1>9, <2>1, LogStill, UserOwes DEF Healing
  <1>10. ASSUME NEW t \in Target, Observe(t) \/ \E w \in Recorder : Record(w, t)
         PROVE  Numbered' /\ RetractionsShow' /\ (unscored \subseteq FollowUp)' /\ FollowUpOwed'
    <2>1. PICK at \in Time, v \in Value \cup {NoValue} : Insert(t, at, v)
      BY <1>10, ConstantsAssumption DEF Observe, Record
    <2>2. \A w \in Retractor : call'[w] = call[w]
      <3>1. call \in [Caller -> Call] /\ \A w \in Retractor : w \in Caller /\ w \notin Recorder
        BY ConstantsAssumption DEF UInv, FInv, TypeOK, Caller, Worker
      <3>2. UNCHANGED call \/ \E w \in Recorder : call' = [call EXCEPT ![w] = InlineRecompute(t)]
        BY <1>10 DEF Observe, Record
      <3>. QED BY <3>1, <3>2
    <2>3. Numbered' /\ RetractionsShow'
      BY <2>1, <2>2, InsertNumbers
    <2>4. /\ UNCHANGED <<claims, unscored, engine, lost, blind, dropped>>
          /\ claim_jobs' = claim_jobs \cup {<<t, ver[t] + 1>>}
          /\ \A u \in Target : u # t => observations'[u] = observations[u] /\ ver'[u] = ver[u]
      BY <2>1 DEF Insert, UInv, FInv, TypeOK
    <2>5. Queued(t)'
      <3>1. <<t, ver[t] + 1>> \in claim_jobs' /\ <<t, ver[t] + 1>>[1] = t
        BY <2>4
      <3>. QED BY <3>1 DEF Queued, JobsOf
    <2>. QED BY <2>3, <2>4, <2>5, LogOwes
  <1>11. ASSUME NEW w \in Retractor, NEW t \in Target, RetractDelete(w, t)
         PROVE  Numbered' /\ RetractionsShow' /\ (unscored \subseteq FollowUp)' /\ FollowUpOwed'
    <2>1. Numbered' /\ RetractionsShow' /\ Retracted(t)'
      BY <1>11, DeleteNumbers
    <2>2. /\ UNCHANGED <<claims, unscored, engine, lost, blind, dropped, claim_jobs>>
          /\ \A u \in Target : u # t => observations'[u] = observations[u] /\ ver'[u] = ver[u]
      BY <1>11 DEF RetractDelete, queue, UInv, FInv, TypeOK
    <2>. QED BY <2>1, <2>2, LogOwes
  <1>. QED BY <1>4, <1>5, <1>6, <1>7, <1>8, <1>9, <1>10, <1>11 DEF Next

(* A settle or a request that writes a claim scoring reads costs it no rescore: while
   the prediction is stale, a job of the target is queued or the tick owes the rescore,
   with any number of settles, requests, users and changes of the log, unless an update
   was lost, the newest observations disagree, one was retracted, a user's value raced
   the write or a fault dropped the rescore.  It rests on the settle leaving the jobs
   of follow-up targets alone, and on a claim without a job being what the log says. *)
THEOREM FollowUpsOwed == Spec => []FollowUpOwed
  <1>1. Init => UInv
    <2>1. Init => FInv
      BY TypeInit, IdleFields DEF Init, FInv, Bounded, Planned, HeldJobs, Held, Fresh, Settled, Stated, Owed
    <2>2. Init => AInv
      BY TypeInit DEF Init, AInv, AssertionHolds, NoRace, Protected
    <2>3. Init => Numbered /\ RetractionsShow /\ unscored \subseteq FollowUp /\ FollowUpOwed
      BY IdleFields DEF Init, Numbered, RetractionsShow, Healing, FollowUpOwed
    <2>4. Init => Pinned
      BY DEF Init, Pinned, Sticky, NoRow
    <2>. QED BY <2>1, <2>2, <2>3, <2>4 DEF UInv
  <1>2. UInv => FollowUpOwed
    BY DEF UInv
  <1>. QED BY <1>1, <1>2, RescoreStep, PTL DEF Spec
=============================================================================
