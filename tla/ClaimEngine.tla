---------------------------- MODULE ClaimEngine ----------------------------
(***************************************************************************)
(* The belief layer of OpenNous: observations are an append-only log, the  *)
(* claims table is a cache derived from it, and claim_jobs is the queue    *)
(* that says which claims may be out of date.  A claim has three kinds of  *)
(* writer that share nothing but the database:                             *)
(*                                                                         *)
(*   - the claim engine (apps/worker/src/workers/claimEngine.mjs), which   *)
(*     drains the queue with one recomputeClaim per target;                *)
(*   - settleClaimQueue (packages/core/src/services), which an import      *)
(*     calls to drain its own jobs with recomputeClaims;                   *)
(*   - API requests that recompute inline: the record route after it       *)
(*     inserts an observation, the DELETE route after it removes one.      *)
(*                                                                         *)
(* Every round trip to the database is a step of its own.  A target is an  *)
(* (entity, property) pair; targets are numbered in the order the queue is *)
(* read in.  An observation carries observed_at, a value and the number of *)
(* the change of the log that inserted it, which also names its job.       *)
(***************************************************************************)
EXTENDS Naturals, FiniteSets

CONSTANTS
  Target,       \* (entity, property) pairs, as numbers
  Value,        \* values a property can take
  NoValue,      \* "no value": no row, or nothing to derive from
  Blank,        \* {NoValue} if observations without a value are recorded, else {}
  Hot,          \* the values whose arrival fires a transition trigger
  Time,         \* the observed_at stamps
  FollowUp,     \* targets for which claimNeedsEngineFollowUp holds
  Poison,       \* targets whose upsert always fails
  Settler,      \* concurrent calls of settleClaimQueue
  Recorder,     \* concurrent record requests (insert, then recompute inline)
  Retractor,    \* concurrent DELETE /v2/observations/:id requests
  UserEdits,    \* which of "assert" and "clear" users do
  FaultKinds,   \* which faults happen: "call", "delete", "fire", "crash"
  BatchSize,    \* BATCH_SIZE of the engine's read of claim_jobs
  MaxVer,       \* bound: changes of one target's observations
  MaxFault      \* bound: faults

Worker == Settler \cup Recorder \cup Retractor
Caller == Target \cup Worker     \* the engine runs one call per target

ASSUME ConstantsAssumption ==
  /\ Target \subseteq Nat
  /\ Target \cap Worker = {}
  /\ NoValue \notin Value
  /\ Blank \subseteq {NoValue}
  /\ Hot \subseteq Value
  /\ Time \subseteq Nat
  /\ FollowUp \subseteq Target
  /\ Poison \subseteq Target
  /\ Retractor \cap (Settler \cup Recorder) = {}
  /\ BatchSize \in Nat \ {0}
  /\ MaxVer \in Nat
  /\ MaxFault \in Nat

VARIABLES
  observations,  \* [Target -> set of observations]
  claim_jobs,    \* the queue: pairs <<target, change that enqueued it>>
  claims,        \* [Target -> row]; cls "absent" is no row, ~live is invalid_at set
  call,          \* [Caller -> a recompute in flight]
  engine,        \* the engine's tick: pc, the batch it read, the rescores it owes
  todo,          \* [Settler -> jobs queued before the settle started, not yet taken]
  unscored,      \* follow-up targets whose open prediction predates their claim
  announced,     \* targets whose transition event reached the outbox
  faults,        \* faults so far
  (* history: read by properties, never by an action's guard *)
  ver,           \* [Target -> changes of the observations so far]
  covered,       \* [Target -> the change the best finished recompute had read]
  lost,          \* [Target -> a change is known to have lost its recompute]
  fixed,         \* [Target -> value a user set while no recompute was past its read]
  blind,         \* targets whose sticky check went unanswered since a user set
                 \* them, or whose last user value raced a recompute past its read
  dropped        \* targets whose announcement or rescore a fault is known to have dropped

queue   == <<claim_jobs, engine, todo>>
history == <<ver, covered, lost, fixed, blind, dropped>>
vars == <<observations, claim_jobs, claims, call, engine, todo, unscored,
          announced, faults, ver, covered, lost, fixed, blind, dropped>>

-----------------------------------------------------------------------------
(* Derivation *)

Observation == [n : Nat, at : Time, val : Value \cup {NoValue}]

(* deriveClaim: observations without a value are passed over and the newest of the
   others wins; those with the same observed_at are left in whatever order the
   database returned them, which is not the same order for recomputeClaim and
   recomputeClaims. *)
Stated(S)  == {o \in S : o.val # NoValue}
Newest(S)  == {o \in Stated(S) : \A p \in Stated(S) : p.at <= o.at}
Winners(S) == {o.val : o \in Newest(S)}
Derive(S)  == IF Stated(S) = {} THEN {NoValue} ELSE Winners(S)

Row == [val : Value \cup {NoValue}, cls : {"absent", "observed", "asserted"}, live : BOOLEAN]
NoRow == [val |-> NoValue, cls |-> "absent", live |-> FALSE]

(* The upsert of a derived claim names every column but invalid_at: a new row
   is live, an existing one keeps the invalid_at it had. *)
Upsert(row, v) == [val |-> v, cls |-> "observed", live |-> row.live \/ row.cls = "absent"]

(* What the read before a recompute sees: rows with invalid_at are filtered. *)
Sticky(row) == row.live /\ row.cls = "asserted"

Idle == [pc |-> "idle", targets |-> {}, ids |-> {}, plan |-> [t \in Target |-> NoValue],
         wasHot |-> {}, read |-> [t \in Target |-> 0]]

Recompute(pc, T, ids) == [Idle EXCEPT !.pc = pc, !.targets = T, !.ids = ids]

Init ==
  /\ observations = [t \in Target |-> {}]
  /\ claim_jobs = {}
  /\ claims = [t \in Target |-> NoRow]
  /\ call = [c \in Caller |-> Idle]
  /\ engine = [pc |-> "idle", batch |-> {}, owed |-> {}]
  /\ todo = [w \in Settler |-> {}]
  /\ unscored = {}
  /\ announced = {}
  /\ faults = 0
  /\ ver = [t \in Target |-> 0]
  /\ covered = [t \in Target |-> 0]
  /\ lost = [t \in Target |-> FALSE]
  /\ fixed = [t \in Target |-> NoValue]
  /\ blind = {}
  /\ dropped = {}

-----------------------------------------------------------------------------
(* The observation log.  An insert and its claim_jobs row are one statement:
   the enqueue is a trigger. *)

Insert(t, at, v) ==
  /\ ver[t] < MaxVer
  /\ ver' = [ver EXCEPT ![t] = @ + 1]
  /\ observations' = [observations EXCEPT ![t] = @ \cup {[n |-> ver[t] + 1, at |-> at, val |-> v]}]
  /\ claim_jobs' = claim_jobs \cup {<<t, ver[t] + 1>>}
  /\ UNCHANGED <<claims, engine, todo, unscored, announced, faults, covered, lost, fixed, blind, dropped>>

(* Any ingest path: recordObservation and nothing else. *)
Observe(t) ==
  /\ \E at \in Time, v \in Value \cup Blank : Insert(t, at, v)
  /\ UNCHANGED call

(* The record route: insert, then recompute inline. *)
InlineRecompute(t) == Recompute("rows", {t}, {})

Record(w, t) ==
  /\ call[w].pc = "idle"
  /\ \E at \in Time, v \in Value \cup Blank : Insert(t, at, v)
  /\ call' = [call EXCEPT ![w] = InlineRecompute(t)]

-----------------------------------------------------------------------------
(* Users: assertClaims, with a value and with null *)

PastRead(c, t) == call[c].pc \in {"obs", "write"} /\ t \in call[c].targets

Assert(t, v) ==
  /\ "assert" \in UserEdits
  /\ claims' = [claims EXCEPT ![t] = [val |-> v, cls |-> "asserted", live |-> TRUE]]
  /\ fixed' = [fixed EXCEPT ![t] = IF \E c \in Caller : PastRead(c, t) THEN NoValue ELSE v]
  /\ blind' = IF \E c \in Caller : PastRead(c, t) THEN blind \cup {t} ELSE blind \ {t}
  /\ UNCHANGED <<observations, call, queue, unscored, announced, faults, ver, covered, lost, dropped>>

Clear(t) ==
  /\ "clear" \in UserEdits
  /\ claims[t].live
  /\ claims' = [claims EXCEPT ![t].live = FALSE]
  /\ fixed' = [fixed EXCEPT ![t] = NoValue]
  /\ UNCHANGED <<observations, call, queue, unscored, announced, faults, ver, covered, lost, blind, dropped>>

-----------------------------------------------------------------------------
(* recomputeClaim (one target) and recomputeClaims (several): read the rows,
   read the observations, upsert, fire the transition triggers. *)

(* Mutants, here and below, stand just before the definition they change. *)
UnpinnedDropsGuard(T) == T
Unpinned(T) == {t \in T : ~Sticky(claims[t])}

ReadRows(c) ==
  /\ call[c].pc = "rows"
  /\ LET T == Unpinned(call[c].targets) IN
       /\ call' = [call EXCEPT ![c] =
            [@ EXCEPT !.pc = IF T = {} THEN "done" ELSE "obs",
                      !.targets = T,
                      !.wasHot = {t \in T : claims[t].live /\ claims[t].val \in Hot}]]
       /\ covered' = [t \in Target |-> IF t \in call[c].targets \ T THEN ver[t] ELSE covered[t]]
  /\ UNCHANGED <<observations, claims, queue, unscored, announced, faults, ver, lost, fixed, blind, dropped>>

(* recomputeClaim takes the data of its first read and not the error: a read that
   fails is a claim that does not exist.  recomputeClaims throws. *)
ReadNoRows(c) ==
  /\ call[c].pc = "rows"
  /\ call[c].ids = {}
  /\ "call" \in FaultKinds /\ faults < MaxFault
  /\ faults' = faults + 1
  /\ call' = [call EXCEPT ![c].pc = "obs"]
  /\ blind' = blind \cup call[c].targets
  /\ UNCHANGED <<observations, claims, queue, unscored, announced, ver, covered, lost, fixed, dropped>>

ReadObservations(c) ==
  /\ call[c].pc = "obs"
  /\ \E p \in [Target -> Value \cup {NoValue}] :
       LET T == {t \in call[c].targets : p[t] # NoValue} IN
       /\ \A t \in Target : p[t] \in IF t \in call[c].targets THEN Derive(observations[t]) ELSE {NoValue}
       /\ call' = [call EXCEPT ![c] =
            [@ EXCEPT !.pc = IF T = {} THEN "done" ELSE "write",
                      !.targets = T,
                      !.plan = p,
                      !.read = [t \in Target |-> IF t \in T THEN ver[t] ELSE 0]]]
       /\ covered' = [t \in Target |-> IF t \in call[c].targets \ T THEN ver[t] ELSE covered[t]]
  /\ UNCHANGED <<observations, claims, queue, unscored, announced, faults, ver, lost, fixed, blind, dropped>>

Write(c) ==
  /\ call[c].pc = "write"
  /\ call[c].targets \cap Poison = {}
  /\ LET T == call[c].targets
         plan == call[c].plan
         read == call[c].read
     IN
       /\ claims' = [t \in Target |-> IF t \in T THEN Upsert(claims[t], plan[t]) ELSE claims[t]]
       /\ unscored' = unscored \cup {t \in T \cap FollowUp : claims[t].val # plan[t]}
       /\ covered' = [t \in Target |-> IF t \in T /\ read[t] > covered[t] THEN read[t] ELSE covered[t]]
       /\ lost' = [t \in Target |-> lost[t] \/ (t \in T /\ read[t] < covered[t])]
  /\ call' = [call EXCEPT ![c].pc = "fire"]
  /\ UNCHANGED <<observations, queue, announced, faults, ver, fixed, blind, dropped>>

(* fireClaimTransitionTriggers: only a move INTO a hot value is an event; an
   error on the way to the outbox is swallowed. *)
TransitionsAgainstNow(c) ==
  {t \in call[c].targets : call[c].plan[t] \in Hot /\ claims[t].val \notin Hot}
Transitions(c) ==
  {t \in call[c].targets : call[c].plan[t] \in Hot /\ t \notin call[c].wasHot}

(* What a caller that dies now never announces. *)
Unfired(c) == IF call[c].pc = "fire" THEN Transitions(c) ELSE {}

Fire(c) ==
  /\ call[c].pc = "fire"
  /\ \/ /\ announced' = announced \cup Transitions(c)
        /\ UNCHANGED <<faults, dropped>>
     \/ /\ "fire" \in FaultKinds /\ faults < MaxFault
        /\ faults' = faults + 1
        /\ dropped' = dropped \cup Transitions(c)
        /\ UNCHANGED announced
  /\ call' = [call EXCEPT ![c].pc = "done"]
  /\ UNCHANGED <<observations, claims, queue, unscored, ver, covered, lost, fixed, blind>>

(* A retraction that has removed an observation and not yet recomputed. *)
Healing(c, t) ==
  /\ c \in Retractor
  /\ call[c].pc \in {"count", "rows", "obs", "write"}
  /\ t \in call[c].targets

(* A query whose error is looked at: the engine marks the target failed, a settle
   logs its batch and goes on, a request answers 500.  A retraction that stops
   here has removed an observation whose claim nobody will recompute. *)
Fail(c) ==
  /\ call[c].pc \in (IF call[c].ids # {} THEN {"rows", "obs", "write"} ELSE {"obs", "write"})
  /\ \/ call[c].targets \cap Poison # {} /\ call[c].pc = "write" /\ UNCHANGED faults
     \/ "call" \in FaultKinds /\ faults < MaxFault /\ faults' = faults + 1
  /\ call' = [call EXCEPT ![c] = IF c \in Target THEN Recompute("failed", {}, {}) ELSE Idle]
  /\ lost' = [t \in Target |-> lost[t] \/ Healing(c, t)]
  /\ UNCHANGED <<observations, claims, queue, unscored, announced, ver, covered, fixed, blind, dropped>>

-----------------------------------------------------------------------------
(* The engine: processClaimJobs.  The `running` flag keeps ticks apart, so
   there is one engine; its calls run concurrently. *)

JobsOf(t) == {j \in claim_jobs : j[1] = t}

EngineSweep ==
  /\ engine.pc \in {"idle", "drain"}
  /\ claim_jobs # {}
  /\ \E B \in SUBSET claim_jobs :
       /\ Cardinality(B) = IF Cardinality(claim_jobs) < BatchSize THEN Cardinality(claim_jobs) ELSE BatchSize
       /\ \A j \in B, k \in claim_jobs \ B : j[1] <= k[1]
       /\ engine' = [engine EXCEPT !.pc = "sweep", !.batch = B]
       /\ call' = [c \in Caller |->
            IF c \in Target /\ (\E j \in B : j[1] = c) THEN Recompute("rows", {c}, {}) ELSE call[c]]
  /\ UNCHANGED <<observations, claim_jobs, claims, todo, unscored, announced, faults, history>>

(* The end of a sweep: the batch's jobs of the targets that succeeded are
   deleted by id (an error of the delete is ignored), their rescores are owed. *)
SweptJobsByTarget(succeeded) == {j \in claim_jobs : j[1] \in succeeded}
SweptJobsAll(succeeded) == engine.batch
SweptJobs(succeeded) == {j \in engine.batch : j[1] \in succeeded}

EngineFinish ==
  /\ engine.pc = "sweep"
  /\ \A t \in Target : call[t].pc \in {"idle", "done", "failed"}
  /\ LET succeeded == {t \in Target : call[t].pc = "done"} IN
       /\ \/ /\ claim_jobs' = claim_jobs \ SweptJobs(succeeded)
             /\ UNCHANGED faults
          \/ /\ "delete" \in FaultKinds /\ faults < MaxFault
             /\ faults' = faults + 1
             /\ UNCHANGED claim_jobs
       /\ engine' = [pc |-> IF succeeded = {} THEN "wrap" ELSE "drain", batch |-> {},
                     owed |-> engine.owed \cup (succeeded \cap FollowUp)]
  /\ call' = [c \in Caller |-> IF c \in Target THEN Idle ELSE call[c]]
  /\ UNCHANGED <<observations, claims, todo, unscored, announced, history>>

(* The tick ends: the open predictions of the targets it recomputed are
   rescored from the claims as they are now. *)
EngineWrap ==
  /\ engine.pc \in {"drain", "wrap"}
  /\ engine' = [pc |-> "idle", batch |-> {}, owed |-> {}]
  /\ unscored' = unscored \ engine.owed
  /\ UNCHANGED <<observations, claim_jobs, claims, call, todo, announced, faults, history>>

(* The process dies, or the read of the next sweep fails and the tick gives up. *)
EngineCrash ==
  /\ "crash" \in FaultKinds /\ faults < MaxFault
  /\ engine.pc # "idle"
  /\ faults' = faults + 1
  /\ engine' = [pc |-> "idle", batch |-> {}, owed |-> {}]
  /\ call' = [c \in Caller |-> IF c \in Target THEN Idle ELSE call[c]]
  /\ dropped' = dropped \cup engine.owed \cup UNION {Unfired(t) : t \in Target}
  /\ UNCHANGED <<observations, claim_jobs, claims, todo, unscored, announced,
                 ver, covered, lost, fixed, blind>>

-----------------------------------------------------------------------------
(* settleClaimQueue: every job queued when the call started, a batch of
   targets at a time.  The order of the batches is left open. *)

SettleStart(w) ==
  /\ call[w].pc = "idle"
  /\ todo[w] = {}
  /\ claim_jobs # {}
  /\ todo' = [todo EXCEPT ![w] = claim_jobs]
  /\ UNCHANGED <<observations, claim_jobs, claims, call, engine, unscored, announced, faults, history>>

SettleBatch(w) ==
  /\ call[w].pc = "idle"
  /\ todo[w] # {}
  /\ \E T \in SUBSET {j[1] : j \in todo[w]} \ {{}} :
       LET ids == {j \in todo[w] \cap claim_jobs : j[1] \in T}
           here == {j[1] : j \in ids}
       IN
         /\ todo' = [todo EXCEPT ![w] = {j \in @ : j[1] \notin T}]
         /\ call' = [call EXCEPT ![w] = IF here = {} THEN Idle ELSE Recompute("rows", here, ids)]
  /\ UNCHANGED <<observations, claim_jobs, claims, engine, unscored, announced, faults, history>>

(* A recompute outside the engine is over.  A settle deletes its batch's jobs
   by id, except those the engine must still see; a request has no jobs. *)
SettledJobsAll(w) == call[w].ids
SettledJobs(w) == {j \in call[w].ids : j[1] \notin FollowUp}

Finish(w) ==
  /\ call[w].pc = "done"
  /\ \/ /\ claim_jobs' = claim_jobs \ SettledJobs(w)
        /\ UNCHANGED faults
     \/ /\ "delete" \in FaultKinds /\ faults < MaxFault /\ call[w].ids # {}
        /\ faults' = faults + 1
        /\ UNCHANGED claim_jobs
  /\ call' = [call EXCEPT ![w] = Idle]
  /\ UNCHANGED <<observations, claims, engine, todo, unscored, announced, history>>

-----------------------------------------------------------------------------
(* DELETE /v2/observations/:id: remove the row, count what is left, then
   invalidate the claim or recompute it.  Nothing is queued. *)

RetractDelete(w, t) ==
  /\ call[w].pc = "idle"
  /\ ver[t] < MaxVer
  /\ \E o \in observations[t] :
       observations' = [observations EXCEPT ![t] = @ \ {o}]
  /\ ver' = [ver EXCEPT ![t] = @ + 1]
  /\ call' = [call EXCEPT ![w] = Recompute("count", {t}, {})]
  /\ UNCHANGED <<claims, queue, unscored, announced, faults, covered, lost, fixed, blind, dropped>>

AfterCount(left) == IF left THEN "rows" ELSE "hide"

RetractCount(w) ==
  /\ call[w].pc = "count"
  /\ LET left == \E t \in call[w].targets : observations[t] # {} IN
       /\ call' = [call EXCEPT ![w].pc = AfterCount(left)]
       /\ covered' = [t \in Target |-> IF ~left /\ t \in call[w].targets THEN ver[t] ELSE covered[t]]
  /\ UNCHANGED <<observations, claims, queue, unscored, announced, faults, ver, lost, fixed, blind, dropped>>

(* A count that fails counts as zero: the claim is about to be invalidated
   instead of recomputed, whatever is left. *)
RetractNoCount(w) ==
  /\ call[w].pc = "count"
  /\ "call" \in FaultKinds /\ faults < MaxFault
  /\ faults' = faults + 1
  /\ call' = [call EXCEPT ![w].pc = AfterCount(FALSE)]
  /\ lost' = [t \in Target |-> lost[t] \/ Healing(w, t)]
  /\ UNCHANGED <<observations, claims, queue, unscored, announced, ver, covered, fixed, blind, dropped>>

(* The answer of the update is not looked at either. *)
RetractHide(w) ==
  /\ call[w].pc = "hide"
  /\ \/ /\ claims' = [t \in Target |->
             IF t \in call[w].targets THEN [claims[t] EXCEPT !.live = FALSE] ELSE claims[t]]
        /\ fixed' = [t \in Target |-> IF t \in call[w].targets THEN NoValue ELSE fixed[t]]
        /\ UNCHANGED faults
     \/ /\ "call" \in FaultKinds /\ faults < MaxFault
        /\ faults' = faults + 1
        /\ UNCHANGED <<claims, fixed>>
  /\ call' = [call EXCEPT ![w] = Idle]
  /\ UNCHANGED <<observations, queue, unscored, announced, ver, covered, lost, blind, dropped>>

(* The process behind a settle or a request dies, or a settle's next read of the
   queue fails and it gives up. *)
Crash(w) ==
  /\ "crash" \in FaultKinds /\ faults < MaxFault
  /\ call[w].pc # "idle" \/ (w \in Settler /\ todo[w] # {})
  /\ faults' = faults + 1
  /\ call' = [call EXCEPT ![w] = Idle]
  /\ todo' = [s \in Settler |-> IF s = w THEN {} ELSE todo[s]]
  /\ lost' = [t \in Target |-> lost[t] \/ Healing(w, t)]
  /\ dropped' = dropped \cup Unfired(w)
  /\ UNCHANGED <<observations, claim_jobs, claims, engine, unscored, announced, ver, covered, fixed, blind>>

-----------------------------------------------------------------------------
CallStep(c) == ReadRows(c) \/ ReadNoRows(c) \/ ReadObservations(c) \/ Write(c) \/ Fire(c) \/ Fail(c)

Next ==
  \/ \E t \in Target : Observe(t) \/ Clear(t)
  \/ \E t \in Target, v \in Value : Assert(t, v)
  \/ \E c \in Caller : CallStep(c)
  \/ EngineSweep \/ EngineFinish \/ EngineWrap \/ EngineCrash
  \/ \E w \in Settler : SettleStart(w) \/ SettleBatch(w)
  \/ \E w \in Worker : Finish(w) \/ Crash(w)
  \/ \E w \in Recorder, t \in Target : Record(w, t)
  \/ \E w \in Retractor, t \in Target : RetractDelete(w, t)
  \/ \E w \in Retractor : RetractCount(w) \/ RetractNoCount(w) \/ RetractHide(w)

Spec == Init /\ [][Next]_vars

(* Fairness: cron starts a tick every minute and a tick that started keeps
   answering its round trips.  Users, imports and requests owe nothing. *)
EngineFairness ==
  /\ WF_vars(EngineSweep) /\ WF_vars(EngineFinish) /\ WF_vars(EngineWrap)
  /\ \A t \in Target : /\ WF_vars(ReadRows(t)) /\ WF_vars(ReadObservations(t))
                       /\ WF_vars(Write(t)) /\ WF_vars(Fire(t))
                       /\ WF_vars(t \in Poison /\ Fail(t))

FairSpec == Spec /\ EngineFairness

-----------------------------------------------------------------------------
(* Properties *)

Plan == [Target -> Value \cup {NoValue}]
Call == [pc : {"idle", "count", "rows", "obs", "write", "fire", "done", "failed", "hide"},
         targets : SUBSET Target, ids : SUBSET (Target \X Nat), plan : Plan,
         wasHot : SUBSET Target, read : [Target -> Nat]]

(* Types of the tables, of the calls in flight and of the history. *)
TypeOK ==
  /\ observations \in [Target -> SUBSET Observation]
  /\ claim_jobs \subseteq Target \X Nat
  /\ claims \in [Target -> Row]
  /\ call \in [Caller -> Call]
  /\ engine \in [pc : {"idle", "sweep", "drain", "wrap"}, batch : SUBSET (Target \X Nat),
                 owed : SUBSET Target]
  /\ todo \in [Settler -> SUBSET (Target \X Nat)]
  /\ unscored \subseteq Target
  /\ announced \subseteq Target
  /\ faults \in Nat
  /\ ver \in [Target -> Nat]
  /\ covered \in [Target -> Nat]
  /\ lost \in [Target -> BOOLEAN]
  /\ fixed \in [Target -> Value \cup {NoValue}]
  /\ blind \subseteq Target
  /\ dropped \subseteq Target

(* The claim is what deriveClaim makes of the observations there are now; an
   asserted row answers to nobody, and with no observation that states a value
   there is nothing to derive. *)
Settled(t) ==
  \/ Stated(observations[t]) = {}
  \/ claims[t].cls = "asserted"
  \/ claims[t].cls = "observed" /\ claims[t].val \in Winners(observations[t])

(* With the engine as the only writer, a claim that lags its observations
   always has a job in the queue, whatever arrives between the engine's reads
   and its delete, and whatever fails or crashes: "a new observation always
   pulls the belief back toward truth" (claimEngine.mjs:5-7). *)
CurrentOrQueued == \A t \in Target : Settled(t) \/ JobsOf(t) # {}

(* With any number of writers: a claim lags its observations only while the job
   of the LATEST change is queued, or the retraction that made that change is
   still on its way, or a stale write or an abandoned retraction is on record. *)
StaleOnlyAfterLoss ==
  \A t \in Target :
    \/ Settled(t) \/ lost[t]
    \/ <<t, ver[t]>> \in claim_jobs
    \/ \E w \in Retractor : Healing(w, t)

(* A value a user sets while no recompute of it is past its read stays as it
   was set, live, until a user or a retraction changes it, whatever the engine,
   the settles and the requests do, as long as the reads of the sticky check are
   answered (recomputeClaim's sticky check). *)
AssertionHolds ==
  \A t \in Target : fixed[t] # NoValue /\ t \notin blind =>
    claims[t].val = fixed[t] /\ Sticky(claims[t])

(* The observations settle the value: no two of the newest disagree. *)
Decided(t) == \A v, w \in Winners(observations[t]) : v = w

(* An observation of t was retracted: its place in the log is empty. *)
Retracted(t) == \E n \in 1..ver[t] : \A o \in observations[t] : o.n # n

(* A settle or a request that writes a score-affecting claim never costs it its
   rescore: while the claim is one that scoring reads (derived, live), the prediction
   is stale only as long as a job is queued, or the engine's tick still owes the
   rescore, or an update was lost, the write raced a user's, or the tick died owing
   it (settleClaimQueue.ts:13-16).  A retraction queues nothing, so what it changes
   nobody rescores. *)
FollowUpOwed ==
  \A t \in unscored : claims[t].live /\ claims[t].cls = "observed" =>
    \/ JobsOf(t) # {} \/ t \in engine.owed
    \/ lost[t] \/ ~Decided(t) \/ Retracted(t) \/ t \in blind \cup dropped

(* A derived claim that reads a hot value was announced when it got there, or a
   recompute is about to announce it, or the announcement failed or died with its
   process: two recomputes in flight never each leave the event to the other
   (triggers.ts: fireClaimTransitionTriggers). *)
EntryAnnounced ==
  \A t \in Target :
    claims[t].cls = "observed" /\ claims[t].val \in Hot =>
      \/ t \in announced \cup dropped
      \/ \E c \in Caller : call[c].pc = "fire" /\ t \in Transitions(c)

(* The jobs of targets that always fail fill a batch and come before t's. *)
Crowded(t) == Cardinality({j \in claim_jobs : j[1] \in Poison /\ j[1] < t}) >= BatchSize

(* Once observations stop, a target that can be written ends with an empty queue and
   a current claim, failures and crashes included, unless a whole batch of jobs that
   always fail stands before it for good: fewer of them delay nobody.  The queue is
   read in target order (claimEngine.mjs:83) and a sweep in which everything failed
   ends the tick (:140), so a full batch of such jobs starves what is behind it,
   against "nothing is starved" (:79). *)
Converges ==
  \A t \in Target \ Poison : <>[](JobsOf(t) = {} /\ Settled(t)) \/ <>[]Crowded(t)

(* A retraction is over and everything said of t with it: no observation, no job, no
   recompute in flight, and the row it hid. *)
Unsaid(t) ==
  /\ claims[t].cls = "observed" /\ ~claims[t].live
  /\ observations[t] = {} /\ JobsOf(t) = {}
  /\ \A c \in Caller : call[c].pc = "idle"

(* "The fact re-derives as if the observation had never happened"
   (observations.mjs:41-42): where no user edits, what is observed of t after the
   retraction of all that was said of it shows again, unless it is retracted too.
   The code differs: the upsert never clears the invalid_at the retraction set. *)
ReobservedShows ==
  \A t \in Target :
    [](Unsaid(t) => (observations[t] # {} ~> (claims[t].live \/ observations[t] = {})))

=============================================================================
