---------------------------- MODULE BackfillLock ----------------------------
(***************************************************************************)
(* The lock of packages/core/src/services/backfillLock.ts: one writer at a *)
(* time on a workspace.  A run (a backfill script, a daily sweep) takes    *)
(* the row (workspace, job) of backfill_locks before it writes and deletes *)
(* it when it ends.  The workspace-wide job conflicts with every other.    *)
(* A row is a lease: past its expiry it does not count.                    *)
(*                                                                         *)
(* One workspace is modelled.  Every round trip to the database is a step, *)
(* so that taking the lock is two reads and a write that other runs may    *)
(* come between.  A run names its holder: two runs that one process makes  *)
(* of one script share it.                                                 *)
(***************************************************************************)
EXTENDS Naturals

CONSTANTS
  Run,        \* runs of scripts and sweeps
  Job,        \* the jobs, the workspace-wide one among them
  Wide,       \* WORKSPACE_WIDE_JOB
  JobOf,      \* [Run -> Job]
  Holder,     \* [Run -> holder]: host, process and script
  NoHolder,   \* the holder of a row that is not there
  Lease,      \* [Run -> leaseMinutes]
  Renewing,   \* runs that call renew
  MaxTime,    \* bound: the clock
  MaxFault    \* bound: faults

ASSUME LockAssumption ==
  /\ Wide \in Job
  /\ JobOf \in [Run -> Job]
  /\ \A r \in Run : Holder[r] # NoHolder
  /\ Lease \in [Run -> Nat \ {0}]
  /\ Renewing \subseteq Run
  /\ MaxTime \in Nat
  /\ MaxFault \in Nat

VARIABLES
  backfill_locks,  \* [Job -> row]
  run,             \* [Run -> pc, and the clock when it started to acquire]
  now,             \* the clock
  faults,          \* faults so far
  (* history *)
  excused,         \* runs that started or went on without the lock's protection
  leaked           \* <<job, holder>> of rows whose run ended without deleting them

vars == <<backfill_locks, run, now, faults, excused, leaked>>

-----------------------------------------------------------------------------
NoRow == [holder |-> NoHolder, expires |-> 0]
Row   == {NoRow} \cup [holder : {Holder[r] : r \in Run}, expires : Nat \ {0}]

Running(r)     == run[r].pc = "run"
Conflict(r, q) == JobOf[r] = JobOf[q] \/ Wide \in {JobOf[r], JobOf[q]}
Strangers(r, q) == Holder[r] # Holder[q]

Init ==
  /\ backfill_locks = [j \in Job |-> NoRow]
  /\ run = [r \in Run |-> [pc |-> "idle", started |-> 0]]
  /\ now = 0
  /\ faults = 0
  /\ excused = {}
  /\ leaked = {}

Fault == faults < MaxFault /\ faults' = faults + 1

(* The clock a run read matters until it has written its row. *)
To(r, pc) ==
  run' = [run EXCEPT ![r] = [pc |-> pc,
            started |-> IF pc \in {"others", "write"} THEN run[r].started ELSE 0]]

(* lockIsLive, at the time the run started to acquire; a row of one's own holder
   is a re-entry. *)
Blocks(r, j) ==
  /\ backfill_locks[j].holder \notin {NoHolder, Holder[r]}
  /\ backfill_locks[j].expires > run[r].started

-----------------------------------------------------------------------------
(* acquireBackfillLock *)

Start(r) ==
  /\ run[r].pc = "idle"
  /\ run' = [run EXCEPT ![r] = [pc |-> "own", started |-> now]]
  /\ excused' = excused \ {r}
  /\ UNCHANGED <<backfill_locks, now, faults, leaked>>

JobsReadOwn(r) == {JobOf[r]}
JobsRead(r) == {JobOf[r], Wide}

ReadOwn(r) ==
  /\ run[r].pc = "own"
  /\ To(r, IF \E j \in JobsRead(r) : Blocks(r, j) THEN "idle"
           ELSE IF JobOf[r] = Wide THEN "others" ELSE "write")
  /\ UNCHANGED <<backfill_locks, now, faults, excused, leaked>>

(* The second read of a workspace-wide run; its error is not looked at. *)
ReadOthers(r) ==
  /\ run[r].pc = "others"
  /\ \/ /\ To(r, IF \E j \in Job \ {Wide} : Blocks(r, j) THEN "idle" ELSE "write")
        /\ UNCHANGED <<faults, excused>>
     \/ /\ Fault
        /\ To(r, "write")
        /\ excused' = excused \cup {r}
  /\ UNCHANGED <<backfill_locks, now, leaked>>

(* Runs that have read the table and did not see the row r is writing. *)
Missed(r) ==
  {q \in Run : /\ Conflict(r, q) /\ Strangers(r, q)
               /\ run[q].pc = "write" \/ (run[q].pc = "others" /\ JobOf[r] = Wide)}

(* Runs that go on without a row of theirs when row takes its place. *)
Uncovered(row, j) ==
  {q \in Run : /\ Running(q) /\ JobOf[q] = j
               /\ row.holder # Holder[q] \/ row.expires <= now}

Taken(r) == [holder |-> Holder[r], expires |-> run[r].started + Lease[r]]

Upsert(r) ==
  /\ run[r].pc = "write"
  /\ backfill_locks' = [backfill_locks EXCEPT ![JobOf[r]] = Taken(r)]
  /\ To(r, "run")
  /\ excused' = excused \cup Missed(r) \cup Uncovered(Taken(r), JobOf[r])
                  \cup (IF Taken(r).expires <= now THEN {r} ELSE {})
  /\ UNCHANGED <<now, faults, leaked>>

(* A query of the acquisition fails and the run does not start; the row of a
   failed upsert may have landed all the same. *)
AcquireFails(r) ==
  /\ run[r].pc \in {"own", "write"}
  /\ Fault
  /\ To(r, "idle")
  /\ \/ UNCHANGED <<backfill_locks, excused, leaked>>
     \/ /\ run[r].pc = "write"
        /\ backfill_locks' = [backfill_locks EXCEPT ![JobOf[r]] = Taken(r)]
        /\ excused' = excused \cup Uncovered(Taken(r), JobOf[r])
        /\ leaked' = leaked \cup {<<JobOf[r], Holder[r]>>}
  /\ UNCHANGED now

-----------------------------------------------------------------------------
(* The handle: renew, release.  Both name the holder; neither looks at its error. *)

RenewAnyway(r) == [backfill_locks EXCEPT ![JobOf[r]].expires = now + Lease[r]]
Renewed(r) ==
  IF backfill_locks[JobOf[r]].holder = Holder[r]
  THEN [backfill_locks EXCEPT ![JobOf[r]].expires = now + Lease[r]]
  ELSE backfill_locks

Renew(r) ==
  /\ Running(r) /\ r \in Renewing
  /\ backfill_locks' = Renewed(r)
  /\ UNCHANGED <<run, now, faults, excused, leaked>>

ReleasedNever(r) == backfill_locks
Released(r) ==
  IF backfill_locks[JobOf[r]].holder = Holder[r]
  THEN [backfill_locks EXCEPT ![JobOf[r]] = NoRow]
  ELSE backfill_locks

(* The delete, done or failed.  A run of the same holder loses its row with it. *)
Release(r) ==
  \/ /\ backfill_locks' = Released(r)
     /\ excused' = excused \cup {q \in Run \ {r} : Running(q) /\ JobOf[q] = JobOf[r] /\ ~Strangers(r, q)}
     /\ UNCHANGED <<faults, leaked>>
  \/ /\ Fault
     /\ leaked' = leaked \cup {<<JobOf[r], Holder[r]>>}
     /\ UNCHANGED <<backfill_locks, excused>>

(* withBackfillLock: fn returned or threw, and the lock is released. *)
Finish(r) ==
  /\ Running(r)
  /\ Release(r)
  /\ To(r, "idle")
  /\ UNCHANGED now

(* SIGTERM: releaseHeldLocks, then the process exits.  The run goes on until then. *)
HandBack(r) ==
  /\ Running(r)
  /\ Release(r)
  /\ To(r, "exiting")
  /\ UNCHANGED now

Exit(r) ==
  /\ run[r].pc = "exiting"
  /\ To(r, "idle")
  /\ UNCHANGED <<backfill_locks, now, faults, excused, leaked>>

(* The process dies; its row stays until the lease ends. *)
Crash(r) ==
  /\ run[r].pc \notin {"idle", "exiting"}
  /\ Fault
  /\ To(r, "idle")
  /\ leaked' = leaked \cup {<<JobOf[r], Holder[r]>>}
  /\ UNCHANGED <<backfill_locks, now, excused>>

Tick ==
  /\ now < MaxTime
  /\ now' = now + 1
  /\ excused' = excused \cup {q \in Run : Running(q) /\ backfill_locks[JobOf[q]].expires <= now'}
  /\ UNCHANGED <<backfill_locks, run, faults, leaked>>

Next ==
  \/ \E r \in Run :
       \/ Start(r) \/ ReadOwn(r) \/ ReadOthers(r) \/ Upsert(r) \/ AcquireFails(r)
       \/ Renew(r) \/ Finish(r) \/ HandBack(r) \/ Exit(r) \/ Crash(r)
  \/ Tick

Spec == Init /\ [][Next]_vars

-----------------------------------------------------------------------------
(* Properties *)

(* The lock protects the run: its row is there, live. *)
Covered(r) ==
  /\ Running(r)
  /\ backfill_locks[JobOf[r]].holder = Holder[r]
  /\ backfill_locks[JobOf[r]].expires > now

(* Types; a row that is not there has no expiry to be renewed. *)
TypeOK ==
  /\ backfill_locks \in [Job -> Row]
  /\ run \in [Run -> [pc : {"idle", "own", "others", "write", "run", "exiting"}, started : Nat]]
  /\ now \in Nat
  /\ faults \in Nat
  /\ excused \subseteq Run
  /\ leaked \subseteq Job \X {Holder[r] : r \in Run}

(* What the lock does give: two runs of conflicting jobs and different holders
   are at work together only if one took the lock between the other's read and
   write, or outstayed its lease, or was overwritten by such a run, or lost its row
   to a run of its own holder, or could not read the other jobs' rows
   (acquireBackfillLock). *)
Exclusive ==
  \A r, q \in Run :
    r # q /\ Running(r) /\ Running(q) /\ Conflict(r, q) /\ Strangers(r, q)
      => r \in excused \/ q \in excused

(* A run is turned away only by a run that is at work on a conflicting job, or by
   the row of one that died or could not delete it: no row outlives its run
   otherwise, in whatever order runs overwrite, renew and release each other's
   (withBackfillLock: "releasing on the way out whatever happens"). *)
RefusalNamesAWriter ==
  [][\A r \in Run :
       run[r].pc \in {"own", "others"} /\ run'[r].pc = "idle" /\ faults' = faults =>
         \/ \E q \in Run : Running(q) /\ Conflict(r, q) /\ Strangers(r, q)
         \/ \E j \in Job : Blocks(r, j) /\ <<j, backfill_locks[j].holder>> \in leaked]_vars

=============================================================================
