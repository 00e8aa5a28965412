------------------------- MODULE BackfillLockProofs -------------------------
(* What the backfill lock gives for every set of runs, jobs, holders and
   leases: the types, exclusion with its exceptions spelt out, and that a run
   is only ever turned away by a writer. *)
EXTENDS BackfillLock, TLAPS

PC == {"idle", "own", "others", "write", "run", "exiting"}

LEMMA SetRun ==
  ASSUME TypeOK, NEW r \in Run, NEW pc \in PC, To(r, pc)
  PROVE  /\ run' \in [Run -> [pc : PC, started : Nat]]
         /\ run'[r].pc = pc
         /\ \A q \in Run \ {r} : run'[q] = run[q]
         /\ run'[r].started \in {0, run[r].started}
  BY DEF To, TypeOK, PC

LEMMA TakenIsRow ==
  ASSUME TypeOK, NEW r \in Run
  PROVE  /\ Taken(r) \in Row
         /\ Taken(r).holder = Holder[r]
         /\ Taken(r).expires = run[r].started + Lease[r]
         /\ Taken(r).expires \in Nat
  BY LockAssumption DEF Taken, Row, TypeOK

LEMMA LocksAfter ==
  ASSUME TypeOK, NEW r \in Run
  PROVE  /\ [backfill_locks EXCEPT ![JobOf[r]] = Taken(r)] \in [Job -> Row]
         /\ Renewed(r) \in [Job -> Row]
         /\ Released(r) \in [Job -> Row]
  <1>1. Taken(r) \in Row
    BY TakenIsRow
  <1>2. ASSUME backfill_locks[JobOf[r]].holder = Holder[r]
        PROVE  [backfill_locks[JobOf[r]] EXCEPT !.expires = now + Lease[r]] \in Row
    BY <1>2, LockAssumption DEF Row, NoRow, TypeOK
  <1>3. Renewed(r) \in [Job -> Row]
    BY <1>2, LockAssumption DEF Renewed, TypeOK
  <1>4. Released(r) \in [Job -> Row]
    BY LockAssumption DEF Released, TypeOK, Row
  <1>. QED BY <1>1, <1>3, <1>4 DEF TypeOK

LEMMA TypeInit == Init => TypeOK
  BY LockAssumption DEF Init, TypeOK, Row, NoRow

LEMMA TypeRelease ==
  ASSUME TypeOK, NEW r \in Run, Release(r)
  PROVE  /\ backfill_locks' \in [Job -> Row]
         /\ excused' \subseteq Run
         /\ faults' \in Nat
         /\ leaked' \subseteq Job \X {Holder[q] : q \in Run}
  BY LocksAfter, LockAssumption DEF Release, Fault, TypeOK

LEMMA TypeStep == TypeOK /\ [Next]_vars => TypeOK'
  <1>. SUFFICES ASSUME TypeOK, [Next]_vars  PROVE TypeOK'
    OBVIOUS
  <1>. USE DEF PC
  <1>1. ASSUME NEW r \in Run, Start(r)  PROVE TypeOK'
    BY <1>1 DEF Start, TypeOK
  <1>2. ASSUME NEW r \in Run, ReadOwn(r)  PROVE TypeOK'
    BY <1>2, SetRun DEF ReadOwn, TypeOK
  <1>3. ASSUME NEW r \in Run, ReadOthers(r)  PROVE TypeOK'
    BY <1>3, SetRun DEF ReadOthers, Fault, TypeOK
  <1>4. ASSUME NEW r \in Run, Upsert(r)  PROVE TypeOK'
    <2>1. Missed(r) \subseteq Run /\ Uncovered(Taken(r), JobOf[r]) \subseteq Run
      BY DEF Missed, Uncovered
    <2>2. run' \in [Run -> [pc : PC, started : Nat]]
      BY <1>4, SetRun DEF Upsert
    <2>. QED BY <1>4, <2>1, <2>2, LocksAfter DEF Upsert, TypeOK
  <1>5. ASSUME NEW r \in Run, AcquireFails(r)  PROVE TypeOK'
    <2>1. Uncovered(Taken(r), JobOf[r]) \subseteq Run
      BY DEF Uncovered
    <2>2. run' \in [Run -> [pc : PC, started : Nat]]
      BY <1>5, SetRun DEF AcquireFails
    <2>3. <<JobOf[r], Holder[r]>> \in Job \X {Holder[q] : q \in Run}
      BY LockAssumption
    <2>4. CASE UNCHANGED <<backfill_locks, excused, leaked>>
      BY <1>5, <2>2, <2>4 DEF AcquireFails, Fault, TypeOK
    <2>5. CASE /\ backfill_locks' = [backfill_locks EXCEPT ![JobOf[r]] = Taken(r)]
               /\ excused' = excused \cup Uncovered(Taken(r), JobOf[r])
               /\ leaked' = leaked \cup {<<JobOf[r], Holder[r]>>}
      <3>1. backfill_locks' \in [Job -> Row]
        BY <2>5, LocksAfter
      <3>2. excused' \subseteq Run /\ leaked' \subseteq Job \X {Holder[q] : q \in Run}
        BY <2>1, <2>3, <2>5 DEF TypeOK
      <3>. QED BY <1>5, <2>2, <3>1, <3>2 DEF AcquireFails, Fault, TypeOK
    <2>. QED BY <1>5, <2>4, <2>5 DEF AcquireFails
  <1>6. ASSUME NEW r \in Run, Renew(r)  PROVE TypeOK'
    BY <1>6, LocksAfter DEF Renew, TypeOK
  <1>7. ASSUME NEW r \in Run, Finish(r)  PROVE TypeOK'
    BY <1>7, TypeRelease, SetRun DEF Finish, TypeOK
  <1>8. ASSUME NEW r \in Run, HandBack(r)  PROVE TypeOK'
    BY <1>8, TypeRelease, SetRun DEF HandBack, TypeOK
  <1>9. ASSUME NEW r \in Run, Exit(r)  PROVE TypeOK'
    BY <1>9, SetRun DEF Exit, TypeOK
  <1>10. ASSUME NEW r \in Run, Crash(r)  PROVE TypeOK'
    BY <1>10, SetRun, LockAssumption DEF Crash, Fault, TypeOK
  <1>11. CASE Tick
    BY <1>11, LockAssumption DEF Tick, TypeOK
  <1>12. CASE UNCHANGED vars
    BY <1>12 DEF vars, TypeOK
  <1>. QED BY <1>1, <1>2, <1>3, <1>4, <1>5, <1>6, <1>7, <1>8, <1>9, <1>10, <1>11, <1>12 DEF Next

(* Rows, runs and history are well typed in every reachable state
   (backfillLock.ts; TypeOK). *)
THEOREM LockTypeCorrect == Spec => []TypeOK
  BY TypeInit, TypeStep, PTL DEF Spec

-----------------------------------------------------------------------------
(* Exclusion *)

(* No run acquires in the future. *)
StartedPast == \A r \in Run : run[r].started <= now

(* A run that is not excused is covered. *)
AllCovered == \A r \in Run : Running(r) /\ r \notin excused => Covered(r)

(* r has read the rows in which a run at work on q's job shows. *)
HasRead(r, q) == run[r].pc = "write" \/ (run[r].pc = "others" /\ JobOf[q] = Wide)

(* A run past its reads has no writer against it that it ought to have seen. *)
SawNobody ==
  \A r, q \in Run :
    HasRead(r, q) /\ Running(q) /\ Conflict(r, q) /\ Strangers(r, q) => r \in excused \/ q \in excused

LInv == TypeOK /\ StartedPast /\ AllCovered /\ SawNobody /\ Exclusive

LEMMA LInit == Init => LInv
  <1>. SUFFICES ASSUME Init  PROVE LInv
    OBVIOUS
  <1>1. TypeOK
    BY TypeInit
  <1>. QED BY <1>1 DEF Init, LInv, StartedPast, AllCovered, SawNobody, HasRead, Exclusive, Running

(* A run that reads a covered writer's row is turned away. *)
LEMMA CoveredBlocks ==
  ASSUME LInv, NEW r \in Run, NEW q \in Run, Covered(q), Strangers(r, q)
  PROVE  Blocks(r, JobOf[q])
  BY LockAssumption DEF LInv, TypeOK, StartedPast, Covered, Strangers, Blocks, Row, NoRow

(* When one run moves to a pc at which it is neither at work nor past its reads,
   and nothing else changes but the excuses that grow, nothing is lost. *)
LEMMA Leaves ==
  ASSUME LInv, NEW r \in Run, NEW pc \in {"idle", "own", "exiting"}, To(r, pc), TypeOK',
         \A q \in Run \ {r} : q \in excused => q \in excused',
         \A q \in Run \ {r} : Running(q) /\ q \notin excused' => Covered(q)',
         now' = now
  PROVE  LInv'
  <1>1. \A q \in Run \ {r} : run'[q] = run[q]
    BY DEF To, LInv, TypeOK
  <1>2. run'[r].pc = pc /\ run'[r].started \in {0, run[r].started}
    BY DEF To, LInv, TypeOK
  <1>3. StartedPast'
    BY <1>1, <1>2 DEF LInv, StartedPast, TypeOK
  <1>4. AllCovered'
    BY <1>1, <1>2 DEF AllCovered, Running
  <1>5. SawNobody'
    BY <1>1, <1>2 DEF LInv, SawNobody, HasRead, Running, Conflict, Strangers
  <1>6. Exclusive'
    BY <1>1, <1>2 DEF LInv, Exclusive, Running, Conflict, Strangers
  <1>. QED BY <1>3, <1>4, <1>5, <1>6 DEF LInv

(* A release or a landed row leaves a run covered unless it excuses it. *)
LEMMA ReleaseCovers ==
  ASSUME LInv, NEW r \in Run, Release(r), now' = now,
         NEW q \in Run \ {r}, Running(q), run'[q] = run[q], q \notin excused'
  PROVE  Covered(q)'
  <1>1. q \notin excused
    BY DEF Release
  <1>2. Covered(q)
    BY <1>1 DEF LInv, AllCovered
  <1>3. CASE UNCHANGED backfill_locks
    BY <1>2, <1>3 DEF Covered, Running
  <1>4. CASE backfill_locks' = Released(r) /\ ~(JobOf[q] = JobOf[r] /\ ~Strangers(r, q))
    BY <1>2, <1>4, LockAssumption DEF Covered, Running, Released, Strangers, LInv, TypeOK
  <1>. QED BY <1>3, <1>4 DEF Release

LEMMA TakeCovers ==
  ASSUME LInv, NEW r \in Run, now' = now,
         backfill_locks' = [backfill_locks EXCEPT ![JobOf[r]] = Taken(r)],
         excused \cup Uncovered(Taken(r), JobOf[r]) \subseteq excused',
         NEW q \in Run, Running(q), run'[q] = run[q], q \notin excused'
  PROVE  Covered(q)'
  <1>1. Covered(q)
    BY DEF LInv, AllCovered
  <1>2. CASE JobOf[q] # JobOf[r]
    BY <1>1, <1>2, LockAssumption DEF Covered, Running, LInv, TypeOK
  <1>3. CASE JobOf[q] = JobOf[r]
    <2>1. Taken(r).holder = Holder[q] /\ ~(Taken(r).expires <= now)
      BY <1>3 DEF Uncovered
    <2>2. backfill_locks'[JobOf[q]] = Taken(r)
      BY <1>3, LockAssumption DEF LInv, TypeOK
    <2>. QED BY <2>1, <2>2, TakenIsRow DEF Covered, Running, LInv, TypeOK
  <1>. QED BY <1>2, <1>3

(* The run that moves on is past its reads, or at work: what its own reads and
   its own row must have shown is left to the caller. *)
LEMMA LStep == LInv /\ [Next]_vars => LInv'
  <1>. SUFFICES ASSUME LInv, [Next]_vars  PROVE LInv'
    OBVIOUS
  <1>0. TypeOK /\ TypeOK'
    BY TypeStep DEF LInv
  <1>1. ASSUME NEW r \in Run, Start(r)  PROVE LInv'
    <2>1. run'[r] = [pc |-> "own", started |-> now] /\ \A q \in Run \ {r} : run'[q] = run[q]
      BY <1>0, <1>1 DEF Start, TypeOK
    <2>2. StartedPast'
      BY <1>0, <1>1, <2>1 DEF Start, LInv, StartedPast, TypeOK
    <2>3. AllCovered'
      BY <1>1, <2>1 DEF Start, LInv, AllCovered, Covered, Running
    <2>4. SawNobody' /\ Exclusive'
      BY <1>1, <2>1 DEF Start, LInv, SawNobody, HasRead, Exclusive, Running, Conflict, Strangers
    <2>. QED BY <1>0, <2>2, <2>3, <2>4 DEF LInv
  <1>2. ASSUME NEW r \in Run, ReadOwn(r)  PROVE LInv'
    <2>1. CASE \E j \in JobsRead(r) : Blocks(r, j)
      <3>1. To(r, "idle")
        BY <1>2, <2>1 DEF ReadOwn
      <3>. QED BY <1>0, <1>2, <3>1, Leaves DEF ReadOwn, LInv, AllCovered, Covered, Running, To, TypeOK
    <2>2. CASE ~\E j \in JobsRead(r) : Blocks(r, j)
      <3>. DEFINE pc == IF JobOf[r] = Wide THEN "others" ELSE "write"
      <3>1. /\ run'[r].pc = pc /\ run'[r].started = run[r].started
            /\ \A q \in Run \ {r} : run'[q] = run[q]
        BY <1>0, <1>2, <2>2 DEF ReadOwn, To, TypeOK
      <3>2. \A q \in Run : Covered(q) /\ Strangers(r, q) => JobOf[q] \notin JobsRead(r)
        BY <2>2, CoveredBlocks
      <3>3. StartedPast' /\ AllCovered' /\ Exclusive'
        BY <1>2, <3>1 DEF ReadOwn, LInv, StartedPast, AllCovered, Covered, Exclusive, Running, Conflict, Strangers
      <3>4. \A q \in Run : Covered(q) /\ Strangers(r, q) /\ Conflict(r, q) => pc = "others" /\ JobOf[q] # Wide
        BY <3>2 DEF JobsRead, Conflict
      <3>5. SawNobody'
        BY <1>2, <3>1, <3>4 DEF ReadOwn, LInv, AllCovered, SawNobody, HasRead, Running, Conflict, Strangers
      <3>. QED BY <1>0, <3>3, <3>5 DEF LInv
    <2>. QED BY <2>1, <2>2
  <1>3. ASSUME NEW r \in Run, ReadOthers(r)  PROVE LInv'
    <2>1. CASE To(r, "idle") /\ UNCHANGED excused
      BY <1>0, <1>3, <2>1, Leaves DEF ReadOthers, LInv, AllCovered, Covered, Running, To, TypeOK
    <2>2. CASE /\ To(r, "write")
               /\ \/ excused' = excused \cup {r}
                  \/ excused' = excused /\ ~\E j \in Job \ {Wide} : Blocks(r, j)
      <3>1. /\ run'[r].pc = "write" /\ run'[r].started = run[r].started
            /\ \A q \in Run \ {r} : run'[q] = run[q]
        BY <1>0, <2>2 DEF To, TypeOK
      <3>2. StartedPast' /\ AllCovered' /\ Exclusive'
        BY <1>3, <2>2, <3>1 DEF ReadOthers, LInv, StartedPast, AllCovered, Covered, Exclusive, Running, Conflict, Strangers
      <3>3. ASSUME NEW q \in Run, Running(q), Conflict(r, q), Strangers(r, q), r \notin excused'
            PROVE  q \in excused
        <4>1. excused' = excused /\ ~\E j \in Job \ {Wide} : Blocks(r, j)
          BY <2>2, <3>3
        <4>2. CASE JobOf[q] = Wide
          BY <1>3, <3>3, <4>1, <4>2 DEF ReadOthers, LInv, SawNobody, HasRead
        <4>3. CASE JobOf[q] # Wide
          <5>1. JobOf[q] \in Job \ {Wide}
            BY <4>3, LockAssumption
          <5>. QED BY <3>3, <4>1, <5>1, CoveredBlocks DEF LInv, AllCovered
        <4>. QED BY <4>2, <4>3
      <3>4. SawNobody'
        BY <2>2, <3>1, <3>3 DEF LInv, SawNobody, HasRead, Running, Conflict, Strangers
      <3>. QED BY <1>0, <3>2, <3>4 DEF LInv
    <2>. QED BY <1>3, <2>1, <2>2 DEF ReadOthers
  <1>4. ASSUME NEW r \in Run, Upsert(r)  PROVE LInv'
    <2>1. /\ run'[r].pc = "run" /\ run'[r].started = 0
          /\ \A q \in Run \ {r} : run'[q] = run[q]
      BY <1>0, <1>4 DEF Upsert, To, TypeOK
    <2>2. StartedPast'
      BY <1>0, <1>4, <2>1 DEF Upsert, LInv, StartedPast, TypeOK
    <2>3. AllCovered'
      <3>1. ASSUME r \notin excused'  PROVE Covered(r)'
        <4>1. backfill_locks'[JobOf[r]] = Taken(r)
          BY <1>0, <1>4, LockAssumption DEF Upsert, TypeOK
        <4>2. ~(Taken(r).expires <= now)
          BY <1>4, <3>1 DEF Upsert
        <4>. QED BY <1>0, <1>4, <2>1, <4>1, <4>2, TakenIsRow DEF Upsert, Covered, Running, TypeOK
      <3>2. ASSUME NEW q \in Run \ {r}, Running(q)', q \notin excused'  PROVE Covered(q)'
        <4>1. Running(q) /\ run'[q] = run[q]
          BY <2>1, <3>2 DEF Running
        <4>. QED BY <1>4, <3>2, <4>1, TakeCovers DEF Upsert
      <3>. QED BY <3>1, <3>2 DEF AllCovered
    <2>4. \A q \in Run : Running(q) /\ Conflict(r, q) /\ Strangers(r, q) => r \in excused \/ q \in excused
      BY <1>4 DEF Upsert, LInv, SawNobody, HasRead
    <2>5. Exclusive'
      BY <1>4, <2>1, <2>4 DEF Upsert, LInv, Exclusive, Running, Conflict, Strangers
    <2>6. \A p \in Run \ {r} : HasRead(p, r)' /\ Conflict(r, p) /\ Strangers(r, p) => p \in excused'
      BY <1>4, <2>1 DEF Upsert, HasRead, Missed
    <2>7. SawNobody'
      BY <1>4, <2>1, <2>6 DEF Upsert, LInv, SawNobody, HasRead, Running, Conflict, Strangers
    <2>. QED BY <1>0, <2>2, <2>3, <2>5, <2>7 DEF LInv
  <1>5. ASSUME NEW r \in Run, AcquireFails(r)  PROVE LInv'
    <2>1. To(r, "idle") /\ now' = now /\ \A q \in Run \ {r} : run'[q] = run[q]
      BY <1>0, <1>5 DEF AcquireFails, To, TypeOK
    <2>2. ASSUME NEW q \in Run \ {r}, Running(q), q \notin excused'  PROVE Covered(q)'
      <3>1. CASE UNCHANGED <<backfill_locks, excused>>
        BY <2>1, <2>2, <3>1 DEF LInv, AllCovered, Covered, Running
      <3>2. CASE /\ backfill_locks' = [backfill_locks EXCEPT ![JobOf[r]] = Taken(r)]
                 /\ excused' = excused \cup Uncovered(Taken(r), JobOf[r])
        BY <2>1, <2>2, <3>2, TakeCovers
      <3>. QED BY <1>5, <3>1, <3>2 DEF AcquireFails
    <2>3. \A q \in Run : q \in excused => q \in excused'
      BY <1>5 DEF AcquireFails
    <2>. QED BY <1>0, <2>1, <2>2, <2>3, Leaves
  <1>6. ASSUME NEW r \in Run, Renew(r)  PROVE LInv'
    <2>1. ASSUME NEW q \in Run, Covered(q)  PROVE Covered(q)'
      <3>1. now + Lease[r] > now /\ now \in Nat
        BY <1>0, LockAssumption DEF TypeOK
      <3>2. CASE JobOf[q] # JobOf[r] \/ backfill_locks[JobOf[r]].holder # Holder[r]
        BY <1>0, <1>6, <2>1, <3>2, LockAssumption DEF Renew, Renewed, Covered, Running, TypeOK
      <3>3. CASE JobOf[q] = JobOf[r] /\ backfill_locks[JobOf[r]].holder = Holder[r]
        <4>1. backfill_locks'[JobOf[r]] = [backfill_locks[JobOf[r]] EXCEPT !.expires = now + Lease[r]]
          BY <1>0, <1>6, <3>3, LockAssumption DEF Renew, Renewed, TypeOK
        <4>2. backfill_locks[JobOf[r]] \in Row
          BY <1>0, LockAssumption DEF TypeOK
        <4>3. backfill_locks'[JobOf[r]].holder = Holder[r] /\ backfill_locks'[JobOf[r]].expires = now + Lease[r]
          BY <3>3, <4>1, <4>2 DEF Row, NoRow
        <4>. QED BY <1>6, <2>1, <3>1, <3>3, <4>3 DEF Renew, Covered, Running
      <3>. QED BY <3>2, <3>3
    <2>2. AllCovered'
      BY <1>6, <2>1 DEF Renew, LInv, AllCovered, Running
    <2>3. StartedPast' /\ SawNobody' /\ Exclusive'
      BY <1>6 DEF Renew, LInv, StartedPast, SawNobody, HasRead, Exclusive, Running, Conflict, Strangers
    <2>. QED BY <1>0, <2>2, <2>3 DEF LInv
  <1>7. ASSUME NEW r \in Run, NEW pc \in {"idle", "exiting"}, Release(r), To(r, pc), now' = now
        PROVE  LInv'
    <2>1. \A q \in Run \ {r} : run'[q] = run[q]
      BY <1>0, <1>7 DEF To, TypeOK
    <2>2. \A q \in Run \ {r} : Running(q) /\ q \notin excused' => Covered(q)'
      BY <1>7, <2>1, ReleaseCovers
    <2>3. \A q \in Run : q \in excused => q \in excused'
      BY <1>7 DEF Release
    <2>. QED BY <1>0, <1>7, <2>2, <2>3, Leaves
  <1>8. ASSUME NEW r \in Run, Finish(r) \/ HandBack(r)  PROVE LInv'
    BY <1>7, <1>8 DEF Finish, HandBack
  <1>9. ASSUME NEW r \in Run, To(r, "idle"), UNCHANGED <<backfill_locks, now, excused>>  PROVE LInv'
    <2>1. \A q \in Run \ {r} : run'[q] = run[q]
      BY <1>0, <1>9 DEF To, TypeOK
    <2>2. \A q \in Run \ {r} : Running(q) /\ q \notin excused' => Covered(q)'
      BY <1>9, <2>1 DEF LInv, AllCovered, Covered, Running
    <2>. QED BY <1>0, <1>9, <2>2, Leaves
  <1>10. ASSUME NEW r \in Run, Exit(r) \/ Crash(r)  PROVE LInv'
    BY <1>9, <1>10 DEF Exit, Crash
  <1>11. CASE Tick
    <2>1. StartedPast'
      BY <1>0, <1>11 DEF Tick, LInv, StartedPast, TypeOK
    <2>2. ASSUME NEW q \in Run, Running(q)', q \notin excused'  PROVE Covered(q)'
      <3>1. Running(q) /\ q \notin excused /\ ~(backfill_locks[JobOf[q]].expires <= now')
        BY <1>11, <2>2 DEF Tick, Running
      <3>2. Covered(q)
        BY <3>1 DEF LInv, AllCovered
      <3>3. backfill_locks[JobOf[q]].expires \in Nat /\ now' \in Nat
        BY <1>0, LockAssumption DEF TypeOK, Row, NoRow
      <3>. QED BY <1>11, <3>1, <3>2, <3>3 DEF Tick, Covered, Running
    <2>3. SawNobody' /\ Exclusive'
      BY <1>11 DEF Tick, LInv, SawNobody, HasRead, Exclusive, Running, Conflict, Strangers
    <2>. QED BY <1>0, <2>1, <2>2, <2>3 DEF LInv, AllCovered
  <1>12. CASE UNCHANGED vars
    BY <1>0, <1>12 DEF vars, LInv, StartedPast, AllCovered, Covered, SawNobody, HasRead, Exclusive,
       Running, Conflict, Strangers
  <1>. QED BY <1>1, <1>2, <1>3, <1>4, <1>5, <1>6, <1>8, <1>10, <1>11, <1>12 DEF Next

(* Two runs of conflicting jobs and different holders are at work together only
   when one of them is excused, for any number of runs, jobs and leases
   (acquireBackfillLock; Exclusive). *)
THEOREM ExclusionHolds == Spec => []Exclusive
  <1>1. LInv => Exclusive
    BY DEF LInv
  <1>. QED BY LInit, LStep, <1>1, PTL DEF Spec

-----------------------------------------------------------------------------
(* Refusals *)

(* Every row belongs to a run at work, or is known to have been left behind. *)
NoLeak ==
  \A j \in Job :
    backfill_locks[j].holder # NoHolder =>
      \/ <<j, backfill_locks[j].holder>> \in leaked
      \/ \E r \in Run : Running(r) /\ JobOf[r] = j /\ Holder[r] = backfill_locks[j].holder

(* A step of r that keeps the rows, and does not end the work of a run without
   recording the row it leaves. *)
LEMMA LeakInit == Init => NoLeak
  BY DEF Init, NoLeak, NoRow

LEMMA LeakKept ==
  ASSUME NoLeak, leaked \subseteq leaked', backfill_locks' = backfill_locks,
         \A r \in Run : Running(r) => Running(r)' \/ <<JobOf[r], Holder[r]>> \in leaked'
  PROVE  NoLeak'
  BY DEF NoLeak

LEMMA LeakTaken ==
  ASSUME TypeOK, NoLeak, NEW r \in Run, leaked \subseteq leaked',
         backfill_locks' = [backfill_locks EXCEPT ![JobOf[r]] = Taken(r)],
         Running(r)' \/ <<JobOf[r], Holder[r]>> \in leaked',
         \A q \in Run : Running(q) => Running(q)'
  PROVE  NoLeak'
  <1>. SUFFICES ASSUME NEW j \in Job, backfill_locks'[j].holder # NoHolder
                PROVE  \/ <<j, backfill_locks'[j].holder>> \in leaked'
                       \/ \E q \in Run : Running(q)' /\ JobOf[q] = j /\ Holder[q] = backfill_locks'[j].holder
    BY DEF NoLeak
  <1>1. CASE j = JobOf[r]
    <2>1. backfill_locks'[j].holder = Holder[r]
      BY <1>1, TakenIsRow, LockAssumption DEF TypeOK
    <2>. QED BY <1>1, <2>1
  <1>2. CASE j # JobOf[r]
    <2>1. backfill_locks'[j] = backfill_locks[j]
      BY <1>2, LockAssumption DEF TypeOK
    <2>. QED BY <2>1 DEF NoLeak
  <1>. QED BY <1>1, <1>2

LEMMA LeakReleased ==
  ASSUME TypeOK, NoLeak, NEW r \in Run, Release(r),
         \A q \in Run \ {r} : Running(q) => Running(q)'
  PROVE  NoLeak'
  <1>1. CASE backfill_locks' = backfill_locks /\ leaked' = leaked \cup {<<JobOf[r], Holder[r]>>}
    BY <1>1, LeakKept
  <1>2. CASE backfill_locks' = Released(r) /\ leaked' = leaked
    <2>. SUFFICES ASSUME NEW j \in Job, backfill_locks'[j].holder # NoHolder
                  PROVE  \/ <<j, backfill_locks'[j].holder>> \in leaked'
                         \/ \E q \in Run : Running(q)' /\ JobOf[q] = j /\ Holder[q] = backfill_locks'[j].holder
      BY DEF NoLeak
    <2>1. backfill_locks'[j] = backfill_locks[j] /\ ~(j = JobOf[r] /\ backfill_locks[j].holder = Holder[r])
      BY <1>2, LockAssumption DEF Released, NoRow, TypeOK
    <2>. QED BY <1>2, <2>1 DEF NoLeak
  <1>. QED BY <1>1, <1>2 DEF Release

LEMMA LeakStep == TypeOK /\ NoLeak /\ [Next]_vars => NoLeak'
  <1>. SUFFICES ASSUME TypeOK, NoLeak, [Next]_vars  PROVE NoLeak'
    OBVIOUS
  <1>1. ASSUME NEW r \in Run,
               Start(r) \/ ReadOwn(r) \/ ReadOthers(r) \/ Exit(r) \/ Crash(r)
        PROVE  NoLeak'
    <2>1. \A q \in Run : Running(q) => Running(q)' \/ <<JobOf[q], Holder[q]>> \in leaked'
      BY <1>1 DEF Start, ReadOwn, ReadOthers, Exit, Crash, To, Running, TypeOK
    <2>. QED BY <1>1, <2>1, LeakKept DEF Start, ReadOwn, ReadOthers, Exit, Crash
  <1>2. ASSUME NEW r \in Run, Upsert(r)  PROVE NoLeak'
    <2>1. Running(r)' /\ \A q \in Run : Running(q) => Running(q)'
      BY <1>2 DEF Upsert, To, Running, TypeOK
    <2>. QED BY <1>2, <2>1, LeakTaken DEF Upsert
  <1>3. ASSUME NEW r \in Run, AcquireFails(r)  PROVE NoLeak'
    <2>1. \A q \in Run : Running(q) => Running(q)'
      BY <1>3 DEF AcquireFails, To, Running, TypeOK
    <2>2. CASE UNCHANGED <<backfill_locks, leaked>>
      BY <2>1, <2>2, LeakKept
    <2>3. CASE /\ backfill_locks' = [backfill_locks EXCEPT ![JobOf[r]] = Taken(r)]
               /\ leaked' = leaked \cup {<<JobOf[r], Holder[r]>>}
      BY <2>1, <2>3, LeakTaken
    <2>. QED BY <1>3, <2>2, <2>3 DEF AcquireFails
  <1>4. ASSUME NEW r \in Run, Renew(r)  PROVE NoLeak'
    <2>1. \A j \in Job : backfill_locks'[j].holder = backfill_locks[j].holder
      BY <1>4, LockAssumption DEF Renew, Renewed, TypeOK, Row, NoRow
    <2>. QED BY <1>4, <2>1 DEF Renew, NoLeak, Running
  <1>5. ASSUME NEW r \in Run, Finish(r) \/ HandBack(r)  PROVE NoLeak'
    <2>1. \A q \in Run \ {r} : Running(q) => Running(q)'
      BY <1>5 DEF Finish, HandBack, To, Running, TypeOK
    <2>. QED BY <1>5, <2>1, LeakReleased DEF Finish, HandBack
  <1>6. CASE Tick \/ UNCHANGED vars
    BY <1>6, LeakKept DEF Tick, vars, Running
  <1>. QED BY <1>1, <1>2, <1>3, <1>4, <1>5, <1>6 DEF Next

(* Only a workspace-wide run makes the second read. *)
OnlyWideReadsOthers == \A r \in Run : run[r].pc = "others" => JobOf[r] = Wide

LEMMA OthersStep == TypeOK /\ OnlyWideReadsOthers /\ [Next]_vars => OnlyWideReadsOthers'
  <1>. SUFFICES ASSUME TypeOK, OnlyWideReadsOthers, [Next]_vars, NEW q \in Run, run'[q].pc = "others"
                PROVE  JobOf[q] = Wide
    BY DEF OnlyWideReadsOthers
  <1>1. CASE run'[q] = run[q]
    BY <1>1 DEF OnlyWideReadsOthers
  <1>2. CASE run'[q] # run[q]
    <2>1. PICK r \in Run : \/ Start(r) \/ ReadOwn(r) \/ ReadOthers(r) \/ Upsert(r) \/ AcquireFails(r)
                           \/ Renew(r) \/ Finish(r) \/ HandBack(r) \/ Exit(r) \/ Crash(r)
      BY <1>2 DEF Next, Tick, vars
    <2>2. r = q
      BY <1>2, <2>1 DEF Start, ReadOwn, ReadOthers, Upsert, AcquireFails, Renew, Finish, HandBack,
         Exit, Crash, To, TypeOK
    <2>3. ReadOwn(q)
      BY <1>2, <2>1, <2>2 DEF Start, ReadOthers, Upsert, AcquireFails, Renew, Finish, HandBack,
         Exit, Crash, To, TypeOK
    <2>. QED BY <2>3 DEF ReadOwn, To, TypeOK
  <1>. QED BY <1>1, <1>2

LEMMA RefusalStep ==
  ASSUME TypeOK, NoLeak, OnlyWideReadsOthers, [Next]_vars, NEW r \in Run,
         run[r].pc \in {"own", "others"}, run'[r].pc = "idle", faults' = faults
  PROVE  \/ \E q \in Run : Running(q) /\ Conflict(r, q) /\ Strangers(r, q)
         \/ \E j \in Job : Blocks(r, j) /\ <<j, backfill_locks[j].holder>> \in leaked
  <1>1. ~Fault
    BY DEF Fault, TypeOK
  <1>2. \/ ReadOwn(r) /\ \E j \in JobsRead(r) : Blocks(r, j)
        \/ ReadOthers(r) /\ \E j \in Job \ {Wide} : Blocks(r, j)
    <2>1. run'[r] # run[r]
      OBVIOUS
    <2>2. PICK q \in Run : \/ Start(q) \/ ReadOwn(q) \/ ReadOthers(q) \/ Upsert(q) \/ AcquireFails(q)
                           \/ Renew(q) \/ Finish(q) \/ HandBack(q) \/ Exit(q) \/ Crash(q)
      BY <2>1 DEF Next, Tick, vars
    <2>3. q = r
      BY <2>1, <2>2 DEF Start, ReadOwn, ReadOthers, Upsert, AcquireFails, Renew, Finish, HandBack,
         Exit, Crash, To, TypeOK
    <2>4. ReadOwn(r) \/ ReadOthers(r)
      BY <1>1, <2>2, <2>3 DEF Start, Upsert, AcquireFails, Renew, Finish, HandBack, Exit, Crash,
         To, Running, TypeOK
    <2>. QED BY <1>1, <2>4 DEF ReadOwn, ReadOthers, To, TypeOK
  <1>3. PICK j \in Job : Blocks(r, j) /\ (j = JobOf[r] \/ Wide \in {j, JobOf[r]})
    <2>. QED BY <1>2, LockAssumption DEF JobsRead, ReadOthers, OnlyWideReadsOthers
  <1>4. backfill_locks[j].holder # NoHolder /\ backfill_locks[j].holder # Holder[r]
    BY <1>3 DEF Blocks
  <1>. QED BY <1>3, <1>4 DEF NoLeak, Conflict, Strangers

(* A run is turned away only by a writer, or by the row of one that died or could
   not delete it, whatever order rows are overwritten, renewed and released in
   (withBackfillLock; RefusalNamesAWriter). *)
THEOREM RefusalsAreJustified == Spec => RefusalNamesAWriter
  <1>1. Init => TypeOK /\ NoLeak /\ OnlyWideReadsOthers
    BY TypeInit, LeakInit DEF Init, OnlyWideReadsOthers
  <1>2. TypeOK /\ NoLeak /\ OnlyWideReadsOthers /\ [Next]_vars
          => (TypeOK /\ NoLeak /\ OnlyWideReadsOthers)'
    BY TypeStep, LeakStep, OthersStep
  <1>3. TypeOK /\ NoLeak /\ OnlyWideReadsOthers /\ [Next]_vars
          => [\A r \in Run :
                run[r].pc \in {"own", "others"} /\ run'[r].pc = "idle" /\ faults' = faults =>
                  \/ \E q \in Run : Running(q) /\ Conflict(r, q) /\ Strangers(r, q)
                  \/ \E j \in Job : Blocks(r, j) /\ <<j, backfill_locks[j].holder>> \in leaked]_vars
    BY RefusalStep
  <1>. QED BY <1>1, <1>2, <1>3, PTL DEF Spec, RefusalNamesAWriter
=============================================================================
