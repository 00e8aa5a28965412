------------------------- MODULE BackfillJobsProofs -------------------------
(***************************************************************************)
(* What holds of the backfills of a workspace for any number of sources,   *)
(* people, accounts, rows and faults.  Types, and that a backfill is       *)
(* started once, hold for any number of workers.  That a connected source  *)
(* is owed, and that what could not be read stays readable, is what the    *)
(* `running` flag of the one worker process is for: they are stated for a  *)
(* single worker.                                                          *)
(***************************************************************************)
EXTENDS BackfillJobs, WellFoundedInduction, TLAPS

-----------------------------------------------------------------------------
\* The smallest and the greatest of a set of rows.

\* A set of natural numbers that is not empty has a smallest element.
LEMMA Least ==
  ASSUME NEW S \in SUBSET Nat, S # {}
  PROVE  \E m \in S : \A k \in S : m <= k
<1> DEFINE R == {ss \in Nat \X Nat : ss[1] < ss[2]}
<1>1. IsWellFoundedOn(R, Nat)
  BY NatLessThanWellFounded DEF OpToRel
<1>2. \A x, y \in Nat : x < y => <<x, y>> \in R
  BY SMT
<1> HIDE DEF R
<1>3. PICK x \in S : \A y \in S : ~ (<<y, x>> \in R)
  BY <1>1, WFMin
<1>4. \A y \in S : x \in Nat /\ y \in Nat
  OBVIOUS
<1>5. \A y \in S : ~(y < x)
  BY <1>3, <1>2, <1>4
<1>6. \A y \in S : x <= y
  BY <1>5, <1>4
<1> QED BY <1>6

\* The oldest of some rows is one of them (order created_at, limit 1).
LEMMA OldestIn ==
  ASSUME NEW js \in SUBSET Job, js # {}
  PROVE  Oldest(js) \in js
<1>1. js \in SUBSET Nat
  BY DEF Job
<1>2. \E j \in js : \A k \in js : j <= k
  BY <1>1, Least
<1> QED BY <1>2 DEF Oldest

\* The newest of some rows is one of them, and 0 says that there is none.
LEMMA LatestIn ==
  ASSUME NEW js \in SUBSET Job
  PROVE  /\ Latest(js) \in 0..MaxJobs
         /\ js # {} => Latest(js) \in js
         /\ Latest(js) # 0 => Latest(js) \in js
<1>1. CASE js = {}
  BY <1>1, JobsAssumption DEF Latest
<1>2. CASE js # {}
  <2>1. \A j \in js : j \in Nat /\ j <= MaxJobs /\ j >= 1
    BY JobsAssumption DEF Job
  <2> DEFINE S == {MaxJobs - j : j \in js}
  <2>2. S \in SUBSET Nat /\ S # {}
    BY <2>1, <1>2, JobsAssumption
  <2>3. PICK m \in S : \A k \in S : m <= k
    BY <2>2, Least
  <2>4. PICK j \in js : m = MaxJobs - j
    BY <2>3
  <2>5. \A k \in js : MaxJobs - k \in S
    OBVIOUS
  <2>6. \A k \in js : m <= MaxJobs - k
    BY <2>5, <2>3
  <2>7. \A k \in js : k <= j
    BY <2>6, <2>4, <2>1, JobsAssumption
  <2>8. Latest(js) \in js
    BY <2>7, <1>2 DEF Latest
  <2> QED BY <2>8, <2>1, JobsAssumption
<1> QED BY <1>1, <1>2

-----------------------------------------------------------------------------
\* Types

RowType == [status : Open \cup Ended \cup {"none"}, reason : Estimates, parked : BOOLEAN,
            started : BOOLEAN, attempts : Nat, stale : BOOLEAN, accounts : SUBSET Account]
RequestType == [pc : {"new", "enqueue", "price", "write", "yes", "park", "start", "end"},
                row : 0..MaxJobs]
RunType == [pc : {"idle", "picked", "claimed", "guard", "scan", "finish", "stamp"},
            job : 0..MaxJobs, was : {"none", "pending", "running"}, attempts : Nat,
            seen : SUBSET Source, left : SUBSET Source, failed : SUBSET Source,
            whole : BOOLEAN]

RowTypes     == graph \subseteq Account /\ rows \in [Job -> RowType]
RequestTypes == request \in [Request -> RequestType] /\ lost \subseteq Request
RunTypes     == run \in [Worker -> RunType]
WorldTypes   == /\ watermark \in BOOLEAN /\ paying \in BOOLEAN
                /\ credit \in BOOLEAN /\ provider \in BOOLEAN /\ faults \in 0..MaxFault
ReadTypes    == /\ connected \subseteq Source /\ tried \subseteq Source
                /\ read \subseteq Source \X Account /\ missed \subseteq Source \X Account

LEMMA TypeParts == TypeOK <=> RowTypes /\ RequestTypes /\ RunTypes /\ WorldTypes /\ ReadTypes
BY DEF TypeOK, RowTypes, RequestTypes, RunTypes, WorldTypes, ReadTypes, RowType, RequestType, RunType

\* A worker that is not idle has a row in its hands.
HasJob == \A w \in Worker : run[w].pc # "idle" => run[w].job \in Job

TInv == TypeOK /\ HasJob

\* A step of a request moves it to a known place, with a row or none.
LEMMA GoTypes ==
  ASSUME RequestTypes, NEW r \in Request, NEW pc, NEW n \in 0..MaxJobs, Go(r, pc, n),
         pc \in {"new", "enqueue", "price", "write", "yes", "park", "start", "end"}
  PROVE  /\ request' \in [Request -> RequestType]
         /\ request'[r].pc = pc /\ request'[r].row = n
         /\ \A q \in Request \ {r} : request'[q] = request[q]
BY DEF RequestTypes, RequestType, Go

LEMMA ZeroRow == 0 \in 0..MaxJobs
BY JobsAssumption

\* What a connect or a payment queues is a row that waits.
LEMMA QueuedType ==
  ASSUME RowTypes, NEW parked \in BOOLEAN, NEW e \in Estimates
  PROVE  Queued(parked, e) \in RowType /\ Queued(parked, e).status = "awaiting"
BY DEF RowTypes, RowType, Queued, NoRow, Open, Estimates

\* A waiting row that is priced again still waits, any other is left alone.
LEMMA RepricedType ==
  ASSUME RowTypes, NEW j \in Job, NEW e \in Estimates
  PROVE  /\ Repriced(j, e) \in RowType
         /\ Repriced(j, e).status = rows[j].status
         /\ rows[j].status # "awaiting" => Repriced(j, e) = rows[j]
<1>1. rows[j] \in RowType
  BY DEF RowTypes
<1>2. rows[j].parked \in BOOLEAN /\ rows[j].attempts \in Nat
  BY <1>1 DEF RowType
<1>3. Queued(rows[j].parked, e) \in RowType /\ Queued(rows[j].parked, e).status = "awaiting"
  BY <1>2, QueuedType
<1>4. /\ [Queued(rows[j].parked, e) EXCEPT !.attempts = rows[j].attempts] \in RowType
      /\ [Queued(rows[j].parked, e) EXCEPT !.attempts = rows[j].attempts].status = "awaiting"
  BY <1>2, <1>3 DEF RowType
<1> QED BY <1>1, <1>4 DEF Repriced

LEMMA StartedType ==
  ASSUME RowTypes, NEW j \in Job
  PROVE  /\ Started(j) \in RowType
         /\ rows[j].status # "awaiting" => Started(j) = rows[j]
         /\ rows[j].status = "awaiting" => Started(j).status = "pending"
BY DEF RowTypes, RowType, Started, Open, Estimates

LEMMA ResumedType ==
  ASSUME RowTypes, NEW j \in Job
  PROVE  /\ Swept[j] \in RowType
         /\ Swept[j].status = rows[j].status
            \/ (rows[j].status \in {"no_credits", "provider"} /\ Swept[j].status = "pending")
         /\ Swept[j].accounts = rows[j].accounts
BY DEF RowTypes, RowType, Swept, Resumed, Open

-----------------------------------------------------------------------------
\* What a step may do to a row: leave its status and, unless it still waits for a
\* yes, its accounts alone; fill a vacant row; start one that waits; end a pause.
Kept(j) ==
  \/ rows'[j].status = rows[j].status
     /\ (rows[j].status # "awaiting" => rows'[j].accounts = rows[j].accounts)
  \/ rows[j].status \in {"none", "awaiting"} /\ rows'[j].status \in {"awaiting", "pending"}
  \/ rows[j].status \in {"no_credits", "provider"} /\ rows'[j].status = "pending"

AllKept == \A j \in Job : Kept(j)

\* Whatever a worker writes of its job is a status past the yes.
WorkerWrites == {"pending", "running", "no_credits", "provider"} \cup Ended

RowsMove ==
  /\ RowTypes'
  /\ \A j \in Job : Kept(j) \/ rows'[j].status \in WorkerWrites

\* A write of one row that is kept keeps all rows.
LEMMA OneWrite ==
  ASSUME RowTypes, graph' = graph, NEW j \in Job, NEW row \in RowType,
         rows' = [rows EXCEPT ![j] = row]
  PROVE  /\ RowTypes' /\ rows'[j] = row
         /\ \A k \in Job \ {j} : rows'[k] = rows[k] /\ Kept(k)
BY DEF RowTypes, Kept

LEMMA NoWrite ==
  ASSUME RowTypes, UNCHANGED rowVars
  PROVE  RowTypes' /\ AllKept
BY DEF RowTypes, rowVars, AllKept, Kept

\* Connecting, looking, and everything else that writes no row.
LEMMA WritesWaiting ==
  ASSUME TInv, NEW r \in Request, WriteWaiting(r)
  PROVE  RowTypes' /\ AllKept
<1>1. RowTypes /\ RequestTypes
  BY TypeParts DEF TInv
<1>2. PICK e \in Estimates :
        IF request[r].row # 0
        THEN rows' = [rows EXCEPT ![request[r].row] = Repriced(request[r].row, e)]
        ELSE /\ Vacant # {}
             /\ rows' = [rows EXCEPT ![Oldest(Vacant)] = Queued(FALSE, e)]
  BY DEF WriteWaiting
<1>3. graph' = graph
  BY DEF WriteWaiting
<1>4. CASE request[r].row # 0
  <2> DEFINE j == request[r].row
  <2>1. j \in Job
    BY <1>1, <1>4, JobsAssumption DEF RequestTypes, RequestType, Job
  <2>2. /\ Repriced(j, e) \in RowType
        /\ Repriced(j, e).status = rows[j].status
        /\ rows[j].status # "awaiting" => Repriced(j, e) = rows[j]
    BY <1>1, <2>1, RepricedType
  <2>3. rows' = [rows EXCEPT ![j] = Repriced(j, e)]
    BY <1>2, <1>4
  <2> HIDE DEF j
  <2>4. /\ RowTypes' /\ rows'[j] = Repriced(j, e)
        /\ \A k \in Job \ {j} : rows'[k] = rows[k] /\ Kept(k)
    BY <1>1, <1>3, <2>1, <2>2, <2>3, OneWrite
  <2>5. Kept(j)
    BY <2>2, <2>4 DEF Kept
  <2> QED BY <2>4, <2>5 DEF AllKept
<1>5. CASE request[r].row = 0
  <2> DEFINE j == Oldest(Vacant)
  <2>1. j \in Job /\ rows[j].status = "none"
    BY <1>2, <1>5, OldestIn DEF Vacant
  <2>2. Queued(FALSE, e) \in RowType /\ Queued(FALSE, e).status = "awaiting"
    BY <1>1, QueuedType
  <2>3. rows' = [rows EXCEPT ![j] = Queued(FALSE, e)]
    BY <1>2, <1>5
  <2> HIDE DEF j
  <2>4. /\ RowTypes' /\ rows'[j] = Queued(FALSE, e)
        /\ \A k \in Job \ {j} : rows'[k] = rows[k] /\ Kept(k)
    BY <1>1, <1>3, <2>1, <2>2, <2>3, OneWrite
  <2>5. Kept(j)
    BY <2>1, <2>2, <2>4 DEF Kept
  <2> QED BY <2>4, <2>5 DEF AllKept
<1> QED BY <1>4, <1>5

LEMMA RemembersYes ==
  ASSUME TInv, NEW c \in Click, Remember(c)
  PROVE  RowTypes' /\ AllKept
<1>1. RowTypes
  BY TypeParts DEF TInv
<1>2. graph' = graph
  BY DEF Remember
<1>3. \A k \in Job : rows'[k] \in RowType /\ rows'[k].status = rows[k].status
                     /\ rows'[k].accounts = rows[k].accounts
  BY <1>1 DEF Remember, RowTypes, RowType
<1>4. rows' \in [Job -> RowType]
  BY <1>3 DEF Remember
<1> QED BY <1>1, <1>2, <1>3, <1>4 DEF RowTypes, AllKept, Kept

LEMMA Starts ==
  ASSUME TInv, NEW r \in Request, Start(r)
  PROVE  RowTypes' /\ AllKept
<1>1. RowTypes /\ graph' = graph
  BY TypeParts DEF TInv, Start
<1> DEFINE j == request[r].row
<1>2. CASE j \in Job
  <2>1. /\ Started(j) \in RowType
        /\ rows[j].status # "awaiting" => Started(j) = rows[j]
        /\ rows[j].status = "awaiting" => Started(j).status = "pending"
    BY <1>1, <1>2, StartedType
  <2>2. rows' = [rows EXCEPT ![j] = Started(j)]
    BY DEF Start
  <2> HIDE DEF j
  <2>3. /\ RowTypes' /\ rows'[j] = Started(j)
        /\ \A k \in Job \ {j} : rows'[k] = rows[k] /\ Kept(k)
    BY <1>1, <1>2, <2>1, <2>2, OneWrite
  <2>4. Kept(j)
    BY <2>1, <2>3 DEF Kept
  <2> QED BY <2>3, <2>4 DEF AllKept
<1>3. CASE j \notin Job
  BY <1>1, <1>3 DEF Start, RowTypes, AllKept, Kept
<1> QED BY <1>2, <1>3

LEMMA Imports ==
  ASSUME TInv, NEW a \in Account, Import(a)
  PROVE  RowTypes' /\ AllKept
<1>1. RowTypes /\ graph' = graph \cup {a} /\ graph' \subseteq Account
  BY TypeParts DEF TInv, Import, RowTypes
<1> DEFINE j == Oldest(Vacant)
           row == [NoRow EXCEPT !.status = "pending", !.accounts = {a}]
<1>2. j \in Job /\ rows[j].status = "none"
  BY OldestIn DEF Vacant, Import
<1>3. row \in RowType /\ row.status = "pending"
  BY DEF NoRow, RowType, Open, Estimates
<1>4. rows' = [rows EXCEPT ![j] = row]
  BY DEF Import
<1> HIDE DEF j, row
<1>5. rows' \in [Job -> RowType] /\ rows'[j] = row /\ \A k \in Job \ {j} : rows'[k] = rows[k]
  BY <1>1, <1>2, <1>3, <1>4 DEF RowTypes
<1> QED BY <1>1, <1>2, <1>3, <1>5 DEF RowTypes, AllKept, Kept

LEMMA Ages ==
  ASSUME TInv, NEW j \in Job, Age(j)
  PROVE  RowTypes' /\ AllKept
<1>1. RowTypes /\ graph' = graph
  BY TypeParts DEF TInv, Age
<1> DEFINE row == [rows[j] EXCEPT !.stale = TRUE]
<1>2. row \in RowType /\ row.status = rows[j].status /\ row.accounts = rows[j].accounts
  BY <1>1 DEF RowTypes, RowType
<1>3. rows' = [rows EXCEPT ![j] = row]
  BY <1>1 DEF Age, RowTypes
<1> HIDE DEF row
<1>4. RowTypes' /\ rows'[j] = row /\ \A k \in Job \ {j} : rows'[k] = rows[k] /\ Kept(k)
  BY <1>1, <1>2, <1>3, OneWrite
<1> QED BY <1>2, <1>4 DEF AllKept, Kept

LEMMA Ticks ==
  ASSUME TInv, NEW w \in Worker, Tick(w)
  PROVE  /\ RowTypes' /\ AllKept /\ RunTypes' /\ HasJob'
         /\ \A v \in Worker \ {w} : run'[v] = run[v]
         /\ run'[w].pc \in {"idle", "picked"}
<1>1. RowTypes /\ RunTypes /\ graph' = graph
  BY TypeParts DEF TInv, Tick
<1>2. \A j \in Job : /\ Swept[j] \in RowType
                     /\ Swept[j].status = rows[j].status
                        \/ (rows[j].status \in {"no_credits", "provider"} /\ Swept[j].status = "pending")
                     /\ Swept[j].accounts = rows[j].accounts
  BY <1>1, ResumedType
<1>3. rows' = Swept /\ Swept = [j \in Job |-> Resumed(rows[j])]
  BY DEF Tick, Swept
<1>4. rows' \in [Job -> RowType]
  BY <1>2, <1>3
<1>5. AllKept
  BY <1>2, <1>3 DEF AllKept, Kept
<1> DEFINE due == {j \in Job : Claimable(Swept[j])}
           j == Oldest(due)
<1>6. CASE due = {}
  <2>1. run' = run
    BY <1>6 DEF Tick
  <2>2. run'[w].pc = "idle"
    BY <2>1 DEF Tick
  <2> QED BY <1>1, <1>4, <1>5, <2>1, <2>2 DEF RowTypes, RunTypes, HasJob, TInv
<1>7. CASE due # {}
  <2>1. j \in due
    BY <1>7, OldestIn
  <2>2. j \in Job /\ Swept[j].status \in {"pending", "running"} /\ Swept[j].attempts + 1 \in Nat
    BY <2>1, <1>2 DEF Claimable, RowType
  <2> DEFINE r == [pc |-> "picked", job |-> j, was |-> Swept[j].status,
                   attempts |-> Swept[j].attempts + 1,
                   seen |-> {}, left |-> {}, failed |-> {}, whole |-> FALSE]
  <2>3. run' = [run EXCEPT ![w] = r]
    BY <1>7 DEF Tick, Idle
  <2>4. j \in 0..MaxJobs
    BY <2>2, JobsAssumption DEF Job
  <2> HIDE DEF j
  <2>5. r \in RunType /\ r.pc = "picked" /\ r.job = j
    BY <2>2, <2>4 DEF RunType
  <2> HIDE DEF r
  <2>6. run' \in [Worker -> RunType] /\ run'[w] = r /\ \A v \in Worker \ {w} : run'[v] = run[v]
    BY <1>1, <2>3, <2>5 DEF RunTypes
  <2> QED BY <1>1, <1>4, <1>5, <2>2, <2>5, <2>6 DEF RowTypes, RunTypes, HasJob, TInv
<1> QED BY <1>6, <1>7

LEMMA RunWrite ==
  ASSUME TInv, NEW w \in Worker, NEW r \in RunType, r.pc # "idle" => r.job \in Job,
         run' = [run EXCEPT ![w] = r]
  PROVE  /\ RunTypes' /\ HasJob' /\ run'[w] = r
         /\ \A v \in Worker \ {w} : run'[v] = run[v]
<1>1. RunTypes
  BY TypeParts DEF TInv
<1>2. run' \in [Worker -> RunType] /\ run'[w] = r /\ \A v \in Worker \ {w} : run'[v] = run[v]
  BY <1>1 DEF RunTypes
<1> QED BY <1>2 DEF RunTypes, HasJob, TInv

LEMMA IdleType == Idle \in RunType /\ Idle.pc = "idle"
BY JobsAssumption DEF Idle, RunType

\* A step of worker w: it writes its own run, and rows as RowsMove says.
WorkerMoves(w) ==
  /\ RowsMove /\ RunTypes' /\ HasJob'
  /\ \A v \in Worker \ {w} : run'[v] = run[v]

LEMMA Claims ==
  ASSUME TInv, NEW w \in Worker, Claim(w)
  PROVE  /\ WorkerMoves(w)
         /\ \A k \in Job : rows'[k].accounts = rows[k].accounts
         /\ \/ UNCHANGED rows /\ run'[w] = Idle
            \/ /\ run'[w] = [run[w] EXCEPT !.pc = "claimed"]
               /\ rows'[run[w].job].status = "running"
               /\ \A k \in Job \ {run[w].job} : rows'[k] = rows[k]
<1>1. RowTypes /\ RunTypes /\ graph' = graph /\ run[w].job \in Job /\ run[w] \in RunType
  BY TypeParts DEF TInv, Claim, HasJob, RunTypes
<1> DEFINE j == run[w].job
           row == [rows[j] EXCEPT !.status = "running", !.stale = FALSE, !.attempts = run[w].attempts]
           r == [run[w] EXCEPT !.pc = "claimed"]
<1>2. CASE rows[j].status = run[w].was
  <2>1. rows' = [rows EXCEPT ![j] = row] /\ run' = [run EXCEPT ![w] = r]
    BY <1>1, <1>2 DEF Claim, RowTypes, RunTypes
  <2>2. row \in RowType /\ row.status = "running" /\ row.accounts = rows[j].accounts
    <3>1. rows[j] \in RowType /\ run[w].attempts \in Nat
      BY <1>1 DEF RowTypes, RunType
    <3>. QED BY <3>1 DEF RowType, Open
  <2>3. r \in RunType /\ r.pc = "claimed" /\ r.job \in Job
    BY <1>1 DEF RunType
  <2> HIDE DEF row, r
  <2>4. /\ RowTypes' /\ rows'[j] = row
        /\ \A k \in Job \ {j} : rows'[k] = rows[k] /\ Kept(k)
    BY <1>1, <2>1, <2>2, OneWrite
  <2>5. /\ RunTypes' /\ HasJob' /\ run'[w] = r
        /\ \A v \in Worker \ {w} : run'[v] = run[v]
    BY <2>1, <2>3, RunWrite
  <2>6. RowsMove
    BY <2>2, <2>4 DEF RowsMove, WorkerWrites
  <2>7. \A k \in Job : rows'[k].accounts = rows[k].accounts
    BY <2>2, <2>4
  <2>8. /\ run'[w] = [run[w] EXCEPT !.pc = "claimed"]
        /\ rows'[j].status = "running"
    BY <2>2, <2>4, <2>5 DEF r
  <2> QED BY <2>4, <2>5, <2>6, <2>7, <2>8 DEF WorkerMoves
<1>3. CASE rows[j].status # run[w].was
  <2>1. rows' = rows /\ run' = [run EXCEPT ![w] = Idle]
    BY <1>3 DEF Claim
  <2>2. /\ RunTypes' /\ HasJob' /\ run'[w] = Idle
        /\ \A v \in Worker \ {w} : run'[v] = run[v]
    BY <2>1, IdleType, RunWrite
  <2>3. RowTypes' /\ AllKept
    BY <1>1, <2>1, NoWrite DEF rowVars
  <2> QED BY <2>1, <2>2, <2>3 DEF WorkerMoves, RowsMove, AllKept
<1> QED BY <1>2, <1>3

\* Giving a job back: a write of its status, and the worker is idle.
LEMMA Leaves ==
  ASSUME TInv, NEW w \in Worker, NEW status \in WorkerWrites, Leave(w, status),
         run[w].pc # "idle", graph' = graph
  PROVE  /\ WorkerMoves(w) /\ run'[w] = Idle
         /\ rows'[run[w].job].status = status
         /\ \A k \in Job : rows'[k].accounts = rows[k].accounts
         /\ \A k \in Job \ {run[w].job} : rows'[k] = rows[k]
<1>1. RowTypes /\ run[w].job \in Job
  BY TypeParts DEF TInv, HasJob
<1> DEFINE j == run[w].job
           row == [rows[j] EXCEPT !.status = status]
<1>2. rows' = [rows EXCEPT ![j] = row]
  BY <1>1 DEF Leave, RowTypes
<1>3. row \in RowType /\ row.status = status /\ row.accounts = rows[j].accounts
  BY <1>1 DEF RowTypes, RowType, WorkerWrites, Open, Ended
<1> HIDE DEF row
<1>4. /\ RowTypes' /\ rows'[j] = row
      /\ \A k \in Job \ {j} : rows'[k] = rows[k] /\ Kept(k)
  BY <1>1, <1>2, <1>3, OneWrite
<1>5. /\ RunTypes' /\ HasJob' /\ run'[w] = Idle
      /\ \A v \in Worker \ {w} : run'[v] = run[v]
  BY IdleType, RunWrite DEF Leave
<1>6. RowsMove
  BY <1>3, <1>4 DEF RowsMove
<1> QED BY <1>3, <1>4, <1>5, <1>6 DEF WorkerMoves

\* A step of a run that writes no row.
LEMMA Goes ==
  ASSUME TInv, NEW w \in Worker, NEW r \in RunType, r.pc # "idle" => r.job \in Job,
         run' = [run EXCEPT ![w] = r], UNCHANGED rowVars
  PROVE  WorkerMoves(w) /\ run'[w] = r /\ AllKept
<1>1. RowTypes
  BY TypeParts DEF TInv
<1>2. RowTypes' /\ AllKept
  BY <1>1, NoWrite
<1>3. /\ RunTypes' /\ HasJob' /\ run'[w] = r
      /\ \A v \in Worker \ {w} : run'[v] = run[v]
  BY RunWrite
<1> QED BY <1>2, <1>3 DEF WorkerMoves, RowsMove, AllKept

\* The job pauses for want of credits, or the run settles its sources.
LEMMA Preflights ==
  ASSUME TInv, NEW w \in Worker, Preflight(w)
  PROVE  \/ Leave(w, "no_credits") /\ ~credit
         \/ /\ UNCHANGED rowVars
            /\ WorkerMoves(w) /\ AllKept
            /\ run'[w] = [run[w] EXCEPT !.pc = "guard", !.seen = connected, !.left = connected,
                                        !.whole = ~watermark]
<1> SUFFICES ASSUME credit
             PROVE  /\ UNCHANGED rowVars
                    /\ WorkerMoves(w) /\ AllKept
                    /\ run'[w] = [run[w] EXCEPT !.pc = "guard", !.seen = connected, !.left = connected,
                                                !.whole = ~watermark]
  BY DEF Preflight
<1>1. run[w].job \in Job /\ run[w] \in RunType /\ connected \subseteq Source /\ RunTypes
  BY TypeParts DEF TInv, HasJob, RunTypes, ReadTypes, Preflight
<1> DEFINE r == [run[w] EXCEPT !.pc = "guard", !.seen = connected, !.left = connected,
                               !.whole = ~watermark]
<1>2. run' = [run EXCEPT ![w] = r] /\ UNCHANGED rowVars
  BY <1>1 DEF Preflight, RunTypes, rowVars
<1>3. r \in RunType /\ r.job \in Job
  BY <1>1 DEF RunType
<1> HIDE DEF r
<1>4. WorkerMoves(w) /\ run'[w] = r /\ AllKept
  BY <1>2, <1>3, Goes
<1> QED BY <1>2, <1>4 DEF r

LEMMA Guards ==
  ASSUME TInv, NEW w \in Worker, Guard(w)
  PROVE  \/ \E status \in {"no_credits", "provider"} : Leave(w, status)
         \/ /\ UNCHANGED rowVars
            /\ WorkerMoves(w) /\ AllKept
            /\ run'[w] = [run[w] EXCEPT !.pc = IF run[w].left # {} THEN "scan" ELSE "finish"]
<1> SUFFICES ASSUME ~ \E status \in {"no_credits", "provider"} : Leave(w, status)
             PROVE  /\ UNCHANGED rowVars
                    /\ WorkerMoves(w) /\ AllKept
                    /\ run'[w] = [run[w] EXCEPT !.pc = IF run[w].left # {} THEN "scan" ELSE "finish"]
  OBVIOUS
<1>1. run[w].job \in Job /\ run[w] \in RunType /\ RunTypes
  BY TypeParts DEF TInv, HasJob, RunTypes, Guard
<1> DEFINE r == [run[w] EXCEPT !.pc = IF run[w].left # {} THEN "scan" ELSE "finish"]
<1>2. run' = [run EXCEPT ![w] = r] /\ UNCHANGED rowVars
  BY <1>1 DEF Guard, RunTypes, rowVars
<1>3. r \in RunType /\ r.job \in Job
  BY <1>1 DEF RunType
<1> HIDE DEF r
<1>4. WorkerMoves(w) /\ run'[w] = r /\ AllKept
  BY <1>2, <1>3, Goes
<1> QED BY <1>2, <1>4 DEF r

LEMMA Scans ==
  ASSUME TInv, NEW w \in Worker, NEW s \in Source, Scan(w, s)
  PROVE  /\ UNCHANGED rowVars
         /\ WorkerMoves(w) /\ AllKept
         /\ \E failed \in {run[w].failed, run[w].failed \cup {s}} :
              /\ run'[w] = [run[w] EXCEPT !.pc = "guard", !.left = run[w].left \ {s}, !.failed = failed]
              /\ LET past == IF run[w].whole THEN {s} \X rows[run[w].job].accounts ELSE {}
                 IN IF failed = run[w].failed /\ s \notin failed
                    THEN read' = read \cup past /\ missed' = missed
                    ELSE \/ read' = read \cup past /\ missed' = missed
                         \/ missed' = missed \cup past /\ read' = read
<1>1. run[w].job \in Job /\ run[w] \in RunType /\ RunTypes
  BY TypeParts DEF TInv, HasJob, RunTypes, Scan
<1>2. UNCHANGED rowVars
  BY DEF Scan
<1> DEFINE past == IF run[w].whole THEN {s} \X rows[run[w].job].accounts ELSE {}
           r(failed) == [run[w] EXCEPT !.pc = "guard", !.left = run[w].left \ {s}, !.failed = failed]
<1>3. \E failed \in {run[w].failed, run[w].failed \cup {s}} :
        /\ run' = [run EXCEPT ![w] = r(failed)]
        /\ \/ failed = run[w].failed /\ read' = read \cup past /\ missed' = missed
           \/ s \in failed /\ missed' = missed \cup past /\ read' = read
  <2>1. CASE /\ read' = read \cup past /\ missed' = missed
             /\ run' = [run EXCEPT ![w].pc = "guard", ![w].left = @ \ {s}]
    <3>1. run' = [run EXCEPT ![w] = r(run[w].failed)]
      BY <1>1, <2>1 DEF RunTypes, RunType
    <3> QED BY <2>1, <3>1
  <2>2. CASE /\ missed' = missed \cup past /\ read' = read
             /\ run' = [run EXCEPT ![w].pc = "guard", ![w].left = @ \ {s}, ![w].failed = @ \cup {s}]
    <3>1. run' = [run EXCEPT ![w] = r(run[w].failed \cup {s})]
      BY <1>1, <2>2 DEF RunTypes, RunType
    <3> QED BY <2>2, <3>1
  <2> QED BY <2>1, <2>2 DEF Scan
<1>4. PICK failed \in {run[w].failed, run[w].failed \cup {s}} :
        /\ run' = [run EXCEPT ![w] = r(failed)]
        /\ \/ failed = run[w].failed /\ read' = read \cup past /\ missed' = missed
           \/ s \in failed /\ missed' = missed \cup past /\ read' = read
  BY <1>3
<1>5. r(failed) \in RunType /\ r(failed).job \in Job
  BY <1>1 DEF RunType
<1>6. WorkerMoves(w) /\ run'[w] = r(failed) /\ AllKept
  <2> DEFINE rf == r(failed)
  <2>1. rf \in RunType /\ rf.job \in Job /\ run' = [run EXCEPT ![w] = rf]
    BY <1>4, <1>5
  <2> HIDE DEF rf
  <2>2. WorkerMoves(w) /\ run'[w] = rf /\ AllKept
    BY <1>2, <2>1, Goes
  <2> QED BY <2>2 DEF rf
<1> QED BY <1>2, <1>4, <1>6

LEMMA Finishes ==
  ASSUME TInv, NEW w \in Worker, Finish(w)
  PROVE  /\ WorkerMoves(w) /\ run'[w] = [run[w] EXCEPT !.pc = "stamp"]
         /\ rows'[run[w].job].status = "done"
         /\ \A k \in Job : rows'[k].accounts = rows[k].accounts
         /\ \A k \in Job \ {run[w].job} : rows'[k] = rows[k]
<1>1. RowTypes /\ run[w].job \in Job /\ run[w] \in RunType /\ RunTypes /\ graph' = graph
  BY TypeParts DEF TInv, HasJob, RunTypes, Finish
<1> DEFINE j == run[w].job
           row == [rows[j] EXCEPT !.status = "done"]
           r == [run[w] EXCEPT !.pc = "stamp"]
<1>2. rows' = [rows EXCEPT ![j] = row] /\ run' = [run EXCEPT ![w] = r]
  BY <1>1 DEF Finish, RowTypes, RunTypes
<1>3. row \in RowType /\ row.status = "done" /\ row.accounts = rows[j].accounts
  BY <1>1 DEF RowTypes, RowType, Ended
<1>4. r \in RunType /\ r.job \in Job
  BY <1>1 DEF RunType
<1> HIDE DEF row, r
<1>5. /\ RowTypes' /\ rows'[j] = row
      /\ \A k \in Job \ {j} : rows'[k] = rows[k] /\ Kept(k)
  BY <1>1, <1>2, <1>3, OneWrite
<1>6. /\ RunTypes' /\ HasJob' /\ run'[w] = r
      /\ \A v \in Worker \ {w} : run'[v] = run[v]
  BY <1>2, <1>4, RunWrite
<1>7. RowsMove
  BY <1>3, <1>5 DEF RowsMove, WorkerWrites, Ended
<1> QED BY <1>3, <1>5, <1>6, <1>7 DEF WorkerMoves, r

\* The run is over, by its end or with its worker.
LEMMA GoesIdle ==
  ASSUME TInv, NEW w \in Worker, run' = [run EXCEPT ![w] = Idle], UNCHANGED rowVars
  PROVE  WorkerMoves(w) /\ run'[w] = Idle /\ AllKept
<1>1. Idle \in RunType /\ Idle.pc = "idle"
  BY IdleType
<1> QED BY <1>1, Goes

-----------------------------------------------------------------------------
\* Every step keeps the types, and moves rows as RowsMove says.

\* A step that is not a worker's.
Outside ==
  \/ \E s \in Source : Connect(s)
  \/ \E c \in Click : Confirm(c) \/ Remember(c)
  \/ \E p \in Payment : Pay(p)
  \/ \E r \in Request : \/ LookForQueued(r) \/ LookForWaiting(r) \/ WriteWaiting(r)
                        \/ ReadForStart(r) \/ Start(r) \/ RequestDies(r)
  \/ \E a \in Account : Import(a)
  \/ \E j \in Job : Age(j)
  \/ RunsOut \/ ComesBack

LEMMA TwoKinds == Next <=> Outside \/ \E w \in Worker : Work(w) \/ WorkerDies(w)
BY DEF Next, Outside

LEMMA OutsideRows ==
  ASSUME TInv, Outside
  PROVE  /\ RowTypes' /\ AllKept
         /\ UNCHANGED <<run, watermark, read, missed, tried>>
         /\ RunTypes' /\ HasJob'
<1>1. RowTypes /\ RunTypes
  BY TypeParts DEF TInv
<1>2. UNCHANGED <<run, watermark, read, missed, tried>>
  BY DEF Outside, Connect, Confirm, Remember, Pay, LookForQueued, LookForWaiting, WriteWaiting,
         ReadForStart, Start, RequestDies, Import, Age, RunsOut, ComesBack, history, Go
<1>3. RowTypes' /\ AllKept
  <2>1. ASSUME UNCHANGED rowVars PROVE RowTypes' /\ AllKept
    BY <1>1, <2>1, NoWrite
  <2>2. CASE \E s \in Source : Connect(s)
    BY <2>1, <2>2 DEF Connect
  <2>3. CASE \E c \in Click : Confirm(c) \/ Remember(c)
    BY <2>1, <2>3, RemembersYes DEF Confirm
  <2>4. CASE \E p \in Payment : Pay(p)
    BY <2>1, <2>4 DEF Pay
  <2>5. ASSUME NEW r \in Request,
               LookForQueued(r) \/ LookForWaiting(r) \/ ReadForStart(r) \/ RequestDies(r)
        PROVE  RowTypes' /\ AllKept
    BY <2>1, <2>5 DEF LookForQueued, LookForWaiting, ReadForStart, RequestDies
  <2>6. ASSUME NEW r \in Request, WriteWaiting(r) \/ Start(r)
        PROVE  RowTypes' /\ AllKept
    BY <2>6, WritesWaiting, Starts
  <2>7. CASE \E a \in Account : Import(a)
    BY <2>7, Imports
  <2>8. CASE \E j \in Job : Age(j)
    BY <2>8, Ages
  <2>9. CASE RunsOut \/ ComesBack
    BY <2>1, <2>9 DEF RunsOut, ComesBack
  <2> QED BY <2>2, <2>3, <2>4, <2>5, <2>6, <2>7, <2>8, <2>9 DEF Outside
<1>4. RunTypes' /\ HasJob'
  BY <1>1, <1>2 DEF RunTypes, HasJob, TInv
<1> QED BY <1>2, <1>3, <1>4

LEMMA WorkerRows ==
  ASSUME TInv, NEW w \in Worker, Work(w) \/ WorkerDies(w)
  PROVE  WorkerMoves(w) /\ UNCHANGED <<connected, graph, request, lost>>
<1>1. UNCHANGED <<connected, graph, request, lost>>
  BY DEF Work, Tick, Claim, Preflight, Guard, Scan, Throw, Finish, Stamp, WorkerDies, rowVars, history
<1> SUFFICES WorkerMoves(w)
  BY <1>1
<1>2. CASE Tick(w)
  BY <1>2, Ticks DEF WorkerMoves, RowsMove, AllKept
<1>3. CASE Claim(w)
  BY <1>3, Claims
<1>4. ASSUME NEW status \in WorkerWrites, Leave(w, status), run[w].pc # "idle"
      PROVE  WorkerMoves(w)
  BY <1>1, <1>4, Leaves
<1>5. CASE Preflight(w)
  BY <1>4, <1>5, Preflights DEF Preflight, WorkerWrites
<1>6. CASE Guard(w)
  BY <1>4, <1>6, Guards DEF Guard, WorkerWrites
<1>7. CASE \E s \in Source : Scan(w, s)
  BY <1>7, Scans
<1>8. CASE Throw(w)
  BY <1>4, <1>8 DEF Throw, WorkerWrites, Ended
<1>9. CASE Finish(w)
  BY <1>9, Finishes
<1>10. CASE Stamp(w) \/ WorkerDies(w)
  BY <1>10, GoesIdle DEF Stamp, WorkerDies
<1> QED BY <1>1, <1>2, <1>3, <1>5, <1>6, <1>7, <1>8, <1>9, <1>10 DEF Work

LEMMA RequestsTyped ==
  ASSUME TInv, Outside
  PROVE  RequestTypes'
<1>1. RequestTypes
  BY TypeParts DEF TInv
<1>2. ASSUME NEW r \in Request, NEW pc, NEW n \in 0..MaxJobs, Go(r, pc, n),
             pc \in {"new", "enqueue", "price", "write", "yes", "park", "start", "end"},
             lost' = lost \/ lost' = lost \cup {r}
      PROVE  RequestTypes'
  BY <1>1, <1>2, GoTypes DEF RequestTypes
<1>3. ASSUME UNCHANGED <<request, lost>> PROVE RequestTypes'
  BY <1>1, <1>3 DEF RequestTypes
<1>4. 0 \in 0..MaxJobs
  BY ZeroRow
<1>5. ASSUME NEW s \in Source, Connect(s) PROVE RequestTypes'
  BY <1>2, <1>4, <1>5 DEF Connect, Request, history
<1>6. ASSUME NEW c \in Click, Confirm(c) \/ Remember(c) PROVE RequestTypes'
  BY <1>2, <1>4, <1>6 DEF Confirm, Remember, Request, history
<1>7. ASSUME NEW p \in Payment, Pay(p) PROVE RequestTypes'
  BY <1>2, <1>4, <1>7 DEF Pay, Request, history
<1>8. ASSUME NEW r \in Request, LookForQueued(r) \/ WriteWaiting(r) PROVE RequestTypes'
  BY <1>2, <1>4, <1>8 DEF LookForQueued, WriteWaiting, AfterEnqueue, history
<1>9. ASSUME NEW r \in Request, LookForWaiting(r) \/ ReadForStart(r) PROVE RequestTypes'
  <2>1. Latest(Within({"awaiting"})) \in 0..MaxJobs
    BY LatestIn DEF Within
  <2> QED BY <1>2, <1>9, <2>1 DEF LookForWaiting, ReadForStart, history
<1>10. ASSUME NEW r \in Request, Start(r) \/ RequestDies(r) PROVE RequestTypes'
  BY <1>2, <1>4, <1>10 DEF Start, RequestDies, history
<1>11. ASSUME NEW a \in Account, Import(a) PROVE RequestTypes'
  BY <1>3, <1>11 DEF Import, history
<1>12. ASSUME NEW j \in Job, Age(j) PROVE RequestTypes'
  BY <1>3, <1>12 DEF Age, history
<1>13. CASE RunsOut \/ ComesBack
  BY <1>3, <1>13 DEF RunsOut, ComesBack, history
<1> QED BY <1>5, <1>6, <1>7, <1>8, <1>9, <1>10, <1>11, <1>12, <1>13 DEF Outside

LEMMA WorldTyped ==
  ASSUME TInv, Next
  PROVE  WorldTypes'
<1>1. WorldTypes /\ MaxFault \in Nat
  BY TypeParts, JobsAssumption DEF TInv
<1>2. ASSUME Fault PROVE faults' \in 0..MaxFault
  BY <1>1, <1>2 DEF Fault, WorldTypes
<1>3. CASE Outside
  <2>1. ASSUME UNCHANGED <<watermark, world>> PROVE WorldTypes'
    BY <1>1, <2>1 DEF WorldTypes, world
  <2>2. ASSUME NEW s \in Source, Connect(s) PROVE WorldTypes'
    BY <2>1, <2>2 DEF Connect
  <2>3. ASSUME NEW c \in Click, Confirm(c) \/ Remember(c) PROVE WorldTypes'
    BY <2>1, <2>3 DEF Confirm, Remember
  <2>4. ASSUME NEW p \in Payment, Pay(p) PROVE WorldTypes'
    BY <1>1, <2>4 DEF Pay, WorldTypes
  <2>5. ASSUME NEW r \in Request,
               LookForQueued(r) \/ LookForWaiting(r) \/ WriteWaiting(r) \/ ReadForStart(r) \/ Start(r)
        PROVE  WorldTypes'
    BY <2>1, <2>5 DEF LookForQueued, LookForWaiting, WriteWaiting, ReadForStart, Start
  <2>6. ASSUME NEW r \in Request, RequestDies(r) PROVE WorldTypes'
    BY <1>1, <1>2, <2>6 DEF RequestDies, WorldTypes
  <2>7. ASSUME NEW a \in Account, Import(a) PROVE WorldTypes'
    BY <2>1, <2>7 DEF Import
  <2>8. ASSUME NEW j \in Job, Age(j) PROVE WorldTypes'
    BY <2>1, <2>8 DEF Age
  <2>9. CASE RunsOut
    BY <1>1, <1>2, <2>9 DEF RunsOut, WorldTypes
  <2>10. CASE ComesBack
    BY <1>1, <2>10 DEF ComesBack, WorldTypes
  <2> QED BY <1>3, <2>2, <2>3, <2>4, <2>5, <2>6, <2>7, <2>8, <2>9, <2>10 DEF Outside
<1>4. ASSUME NEW w \in Worker, Work(w) PROVE WorldTypes'
  <2>1. UNCHANGED world /\ watermark' \in BOOLEAN
    BY <1>1, <1>4 DEF WorldTypes, Work, Tick, Claim, Preflight, Guard, Scan, Throw, Finish, Stamp, Stamped
  <2> QED BY <1>1, <2>1 DEF WorldTypes, world
<1>5. ASSUME NEW w \in Worker, WorkerDies(w) PROVE WorldTypes'
  BY <1>1, <1>2, <1>5 DEF WorkerDies, WorldTypes
<1> QED BY <1>3, <1>4, <1>5, TwoKinds

LEMMA ReadTyped ==
  ASSUME TInv, Next
  PROVE  ReadTypes' /\ connected \subseteq connected' /\ tried \subseteq tried'
<1>1. ReadTypes /\ RowTypes /\ RunTypes
  BY TypeParts DEF TInv
<1>2. CASE Outside
  <2>1. UNCHANGED <<read, missed, tried>>
    BY <1>2, OutsideRows
  <2>2. connected \subseteq connected' /\ connected' \subseteq Source
    BY <1>1, <1>2 DEF ReadTypes, Outside, Connect, Confirm, Remember, Pay, LookForQueued, LookForWaiting,
       WriteWaiting, ReadForStart, Start, RequestDies, Import, Age, RunsOut, ComesBack
  <2> QED BY <1>1, <2>1, <2>2 DEF ReadTypes
<1>3. ASSUME NEW w \in Worker, Work(w) \/ WorkerDies(w)
      PROVE  ReadTypes' /\ UNCHANGED connected /\ tried \subseteq tried'
  <2>1. UNCHANGED connected
    BY <1>3, WorkerRows
  <2>2. run[w] \in RunType
    BY <1>1 DEF RunTypes
  <2>3. ASSUME UNCHANGED history PROVE ReadTypes' /\ tried \subseteq tried'
    BY <1>1, <2>1, <2>3 DEF ReadTypes, history
  <2>4. CASE Tick(w) \/ Claim(w) \/ Preflight(w) \/ Guard(w) \/ Stamp(w) \/ WorkerDies(w)
    BY <2>1, <2>3, <2>4 DEF Tick, Claim, Preflight, Guard, Stamp, WorkerDies
  <2>5. ASSUME NEW s \in Source, Scan(w, s) PROVE ReadTypes' /\ tried \subseteq tried'
    <3>1. run[w].job \in Job
      BY <2>5 DEF TInv, HasJob, Scan
    <3>2. rows[run[w].job].accounts \subseteq Account
      BY <1>1, <3>1 DEF RowTypes, RowType
    <3>3. {s} \X rows[run[w].job].accounts \subseteq Source \X Account
      BY <3>2
    <3>4. tried' = tried
      BY <2>5 DEF Scan
    <3>5. /\ read' = read \/ read' = read \cup ({s} \X rows[run[w].job].accounts) \/ read' = read \cup {}
          /\ missed' = missed \/ missed' = missed \cup ({s} \X rows[run[w].job].accounts) \/ missed' = missed \cup {}
      BY <2>5 DEF Scan
    <3> QED BY <1>1, <2>1, <3>3, <3>4, <3>5 DEF ReadTypes
  <2>6. CASE Throw(w) \/ Finish(w)
    <3>1. run[w].seen \subseteq Source
      BY <2>2 DEF RunType
    <3> QED BY <1>1, <2>1, <2>6, <3>1 DEF Throw, Finish, ReadTypes
  <2> QED BY <1>3, <2>1, <2>4, <2>5, <2>6 DEF Work
<1> QED BY <1>2, <1>3, TwoKinds

\* A stuttering step.
LEMMA Stutters ==
  ASSUME TInv, UNCHANGED vars
  PROVE  TInv'
BY DEF TInv, TypeOK, HasJob, vars, rowVars, world, history

LEMMA TypesKept ==
  ASSUME TInv, Next
  PROVE  TInv' /\ RowsMove
<1>1. WorldTypes' /\ ReadTypes'
  BY WorldTyped, ReadTyped
<1>2. CASE Outside
  <2>1. RowTypes' /\ AllKept /\ RunTypes' /\ HasJob' /\ RequestTypes'
    BY <1>2, OutsideRows, RequestsTyped
  <2>2. RowsMove
    BY <2>1 DEF RowsMove, AllKept
  <2>3. TypeOK'
    BY <1>1, <2>1, TypeParts, PTL
  <2> QED BY <2>1, <2>2, <2>3 DEF TInv
<1>3. ASSUME NEW w \in Worker, Work(w) \/ WorkerDies(w)
      PROVE  TInv' /\ RowsMove
  <2>1. WorkerMoves(w) /\ UNCHANGED <<connected, graph, request, lost>>
    BY <1>3, WorkerRows
  <2>2. RequestTypes
    BY TypeParts DEF TInv
  <2>3. RequestTypes'
    BY <2>1, <2>2 DEF RequestTypes
  <2>4. TypeOK'
    BY <1>1, <2>1, <2>3, TypeParts, PTL DEF WorkerMoves, RowsMove
  <2> QED BY <2>1, <2>4 DEF TInv, WorkerMoves
<1> QED BY <1>2, <1>3, TwoKinds

LEMMA TypesStart == Init => TInv
<1> SUFFICES ASSUME Init PROVE TInv
  OBVIOUS
<1>1. NoRow \in RowType /\ [pc |-> "new", row |-> 0] \in RequestType
  BY ZeroRow DEF NoRow, RowType, RequestType, Estimates
<1>2. RowTypes /\ RequestTypes
  BY <1>1, JobsAssumption DEF Init, RowTypes, RequestTypes
<1>3. RunTypes /\ HasJob
  BY IdleType DEF Init, RunTypes, HasJob
<1>4. 0 \in 0..MaxFault
  BY JobsAssumption
<1>5. WorldTypes
  BY <1>4 DEF Init, WorldTypes
<1>6. ReadTypes
  BY DEF Init, ReadTypes
<1> QED BY <1>2, <1>3, <1>5, <1>6, TypeParts DEF TInv

LEMMA TypesHold == Spec => []TInv
<1>1. TInv /\ [Next]_vars => TInv'
  BY TypesKept, Stutters
<1> QED BY <1>1, TypesStart, PTL DEF Spec

\* The tables, the requests and the runs have their types, whatever the workers do.
THEOREM BackfillTypes == Spec => []TypeOK
BY TypesHold, PTL DEF TInv

\* A backfill is started once: a row somebody said yes to never waits for a yes again,
\* though a connect or a click acts on what it read of the row before, and with any
\* number of workers.
THEOREM StartedOnce == Spec => StartedStays
<1>1. ASSUME TInv, [Next]_vars
      PROVE  \A j \in Job : rows[j].status \in (Open \cup Ended) \ {"awaiting"} => rows'[j].status # "awaiting"
  <2>1. CASE UNCHANGED vars
    BY <2>1 DEF vars, rowVars
  <2>2. CASE Next
    <3>1. \A j \in Job : Kept(j) \/ rows'[j].status \in WorkerWrites
      BY <1>1, <2>2, TypesKept DEF RowsMove
    <3> QED BY <3>1 DEF Kept, WorkerWrites, Ended, Open
  <2> QED BY <1>1, <2>1, <2>2
<1>2. TInv /\ [Next]_vars =>
        [\A j \in Job : rows[j].status \in (Open \cup Ended) \ {"awaiting"} => rows'[j].status # "awaiting"]_vars
  BY <1>1
<1> QED BY <1>2, TypesHold, PTL DEF Spec, StartedStays

-----------------------------------------------------------------------------
\* One worker process, whose `running` flag keeps its ticks apart.
OneWorker == \A v, w \in Worker : v = w

\* A source is owed: a job that had it in sight is over, or one will have it in sight.
Owed(s) == s \in tried \/ \E j \in Job : WillSee(j, s)

\* A source that was connected is owed from the moment its request is answered, and
\* as soon as the request knows of a row that waits.
SourceFits(s) ==
  /\ request[s].pc \in {"new", "enqueue", "price", "write", "end"}
  /\ request[s].pc # "new" => s \in connected
  /\ s \notin lost /\ (At(s, "end") \/ (At(s, "write") /\ request[s].row # 0)) => Owed(s)

\* The row of a run that has claimed it is running, and done when the run is.
RowHeld(w) ==
  /\ run[w].pc \in {"claimed", "guard", "scan", "finish"} => rows[run[w].job].status = "running"
  /\ run[w].pc = "stamp" => rows[run[w].job].status = "done"

\* What a run has read of its sources; whatever was ever missed is of a source it reads.
ReadFits(w) ==
  run[w].pc \in {"guard", "scan", "finish", "stamp"} =>
    /\ run[w].seen \subseteq connected /\ run[w].left \subseteq run[w].seen
    /\ run[w].whole \/ watermark
    /\ missed \subseteq run[w].seen \X Account
    /\ run[w].whole =>
         (run[w].seen \ (run[w].left \cup run[w].failed)) \X rows[run[w].job].accounts \subseteq read
    /\ run[w].pc \in {"finish", "stamp"} => run[w].left = {}

BInv ==
  /\ TInv
  /\ missed \subseteq connected \X Account
  /\ \A s \in Source : SourceFits(s)
  /\ \A w \in Worker : RowHeld(w) /\ ReadFits(w)

\* What a step that is not a worker's does to what is owed.
LEMMA OwedStays ==
  ASSUME AllKept, UNCHANGED run, tried \subseteq tried', NEW s \in Source, Owed(s)
  PROVE  Owed(s)'
<1>1. CASE s \in tried
  BY <1>1 DEF Owed
<1>2. ASSUME NEW j \in Job, WillSee(j, s)
      PROVE  Owed(s)'
  <2>1. Kept(j)
    BY DEF AllKept
  <2>2. WillSee(j, s)'
    BY <1>2, <2>1 DEF Kept, WillSee, Open
  <2> QED BY <2>2 DEF Owed
<1> QED BY <1>1, <1>2 DEF Owed

\* A row that waits, for a yes or for the worker, owes every source.
LEMMA WaitsForAll ==
  ASSUME NEW j \in Job, rows[j].status \in {"awaiting", "pending"}, NEW s
  PROVE  Owed(s)
BY DEF Owed, WillSee, Open

\* The request of a source: it is not one that says yes.
LEMMA SourceGoes ==
  ASSUME BInv, Outside, AllKept, UNCHANGED <<run, tried>>, NEW s \in Source
  PROVE  SourceFits(s)'
<1>1. RequestTypes /\ RowTypes
  BY TypeParts DEF BInv, TInv
<1>2. SourceFits(s) /\ s \in Request /\ s \notin Click /\ s \notin Payment
  BY JobsAssumption DEF BInv, Request
<1>3. Owed(s) => Owed(s)'
  BY OwedStays
<1>4. ASSUME request'[s] = request[s], lost \subseteq lost', connected \subseteq connected'
      PROVE  SourceFits(s)'
  BY <1>2, <1>3, <1>4 DEF SourceFits, At
<1>5. ASSUME NEW r \in Request, NEW pc, NEW n \in 0..MaxJobs, Go(r, pc, n), r # s,
             pc \in {"new", "enqueue", "price", "write", "yes", "park", "start", "end"},
             lost \subseteq lost', connected \subseteq connected'
      PROVE  SourceFits(s)'
  BY <1>1, <1>2, <1>4, <1>5, GoTypes
<1>6. 0 \in 0..MaxJobs
  BY ZeroRow
<1>7. ASSUME NEW t \in Source, Connect(t) PROVE SourceFits(s)'
  <2>1. CASE t # s
    BY <1>5, <1>6, <1>7, <2>1 DEF Connect, history, Request
  <2>2. CASE t = s
    <3>1. request'[s].pc = "enqueue" /\ s \in connected'
      BY <1>1, <1>2, <1>6, <1>7, <2>2, GoTypes DEF Connect
    <3> QED BY <3>1 DEF SourceFits, At
  <2> QED BY <2>1, <2>2
<1>8. ASSUME NEW c \in Click, Confirm(c) \/ Remember(c) PROVE SourceFits(s)'
  BY <1>2, <1>5, <1>6, <1>8 DEF Confirm, Remember, Request, history
<1>9. ASSUME NEW p \in Payment, Pay(p) PROVE SourceFits(s)'
  BY <1>2, <1>5, <1>6, <1>9 DEF Pay, Request, history
<1>10. ASSUME NEW r \in Request, LookForQueued(r) PROVE SourceFits(s)'
  <2>1. CASE r # s
    BY <1>5, <1>6, <1>10, <2>1 DEF LookForQueued, AfterEnqueue, history
  <2>2. CASE r = s
    <3>1. /\ request'[s].pc = IF Debounced THEN "end" ELSE "price"
          /\ UNCHANGED <<connected, rows>>
      BY <1>1, <1>2, <1>6, <1>10, <2>2, GoTypes DEF LookForQueued, AfterEnqueue, rowVars
    <3>2. s \in connected
      BY <1>2, <1>10, <2>2 DEF SourceFits, LookForQueued, At
    <3>3. Debounced => Owed(s)'
      BY <1>3, WaitsForAll DEF Debounced, Within
    <3> QED BY <3>1, <3>2, <3>3 DEF SourceFits, At
  <2> QED BY <2>1, <2>2
<1>11. ASSUME NEW r \in Request, LookForWaiting(r) PROVE SourceFits(s)'
  <2>1. /\ Latest(Within({"awaiting"})) \in 0..MaxJobs
        /\ Latest(Within({"awaiting"})) # 0 => Latest(Within({"awaiting"})) \in Within({"awaiting"})
    BY LatestIn DEF Within
  <2>2. CASE r # s
    BY <1>5, <1>11, <2>1, <2>2 DEF LookForWaiting, history
  <2>3. CASE r = s
    <3>1. /\ request'[s].pc = "write" /\ request'[s].row = Latest(Within({"awaiting"}))
          /\ UNCHANGED connected
      BY <1>1, <1>2, <1>11, <2>1, <2>3, GoTypes DEF LookForWaiting
    <3>2. s \in connected
      BY <1>2, <1>11, <2>3 DEF SourceFits, LookForWaiting, At
    <3>3. request'[s].row # 0 => Owed(s)'
      BY <1>3, <2>1, <3>1, WaitsForAll DEF Within
    <3> QED BY <3>1, <3>2, <3>3 DEF SourceFits, At
  <2> QED BY <2>2, <2>3
<1>12. ASSUME NEW r \in Request, WriteWaiting(r) PROVE SourceFits(s)'
  <2>1. CASE r # s
    BY <1>5, <1>6, <1>12, <2>1 DEF WriteWaiting, AfterEnqueue, history
  <2>2. CASE r = s
    <3>1. request'[s].pc = "end" /\ UNCHANGED <<connected, lost>>
      BY <1>1, <1>2, <1>6, <1>12, <2>2, GoTypes DEF WriteWaiting, AfterEnqueue, history
    <3>2. s \in connected
      BY <1>2, <1>12, <2>2 DEF SourceFits, WriteWaiting, At
    <3>3. s \notin lost => Owed(s)'
      <4>1. CASE request[s].row # 0
        BY <1>2, <1>3, <1>12, <2>2, <4>1 DEF SourceFits, WriteWaiting, At
      <4>2. CASE request[s].row = 0
        <5>1. PICK e \in Estimates : rows' = [rows EXCEPT ![Oldest(Vacant)] = Queued(FALSE, e)]
          BY <1>12, <2>2, <4>2 DEF WriteWaiting
        <5>2. Oldest(Vacant) \in Job
          BY <1>12, <2>2, <4>2, OldestIn DEF WriteWaiting, Vacant
        <5>3. Queued(FALSE, e).status = "awaiting"
          BY <1>1, QueuedType
        <5>4. rows'[Oldest(Vacant)].status = "awaiting"
          BY <1>1, <5>1, <5>2, <5>3 DEF RowTypes
        <5>5. PICK j \in Job : rows'[j].status = "awaiting"
          BY <5>2, <5>4
        <5>6. WillSee(j, s)'
          BY <5>5 DEF WillSee, Open
        <5> QED BY <5>6 DEF Owed
      <4> QED BY <4>1, <4>2
    <3> QED BY <3>1, <3>2, <3>3 DEF SourceFits, At
  <2> QED BY <2>1, <2>2
<1>13. ASSUME NEW r \in Request, ReadForStart(r) PROVE SourceFits(s)'
  <2>1. r # s
    BY <1>2, <1>13 DEF SourceFits, ReadForStart, At
  <2>2. Latest(Within({"awaiting"})) \in 0..MaxJobs
    BY LatestIn DEF Within
  <2> QED BY <1>5, <1>13, <2>1, <2>2 DEF ReadForStart, history
<1>14. ASSUME NEW r \in Request, Start(r) PROVE SourceFits(s)'
  <2>1. r # s
    BY <1>2, <1>14 DEF SourceFits, Start, At
  <2> QED BY <1>5, <1>6, <1>14, <2>1 DEF Start, history
<1>15. ASSUME NEW r \in Request, RequestDies(r) PROVE SourceFits(s)'
  <2>1. CASE r # s
    BY <1>5, <1>6, <1>15, <2>1 DEF RequestDies
  <2>2. CASE r = s
    <3>1. request'[s].pc = "end" /\ connected' = connected /\ s \in lost'
      BY <1>1, <1>2, <1>6, <1>15, <2>2, GoTypes DEF RequestDies
    <3>2. s \in connected
      BY <1>2, <1>15, <2>2 DEF SourceFits, RequestDies
    <3> QED BY <3>1, <3>2 DEF SourceFits, At
  <2> QED BY <2>1, <2>2
<1>16. CASE (\E a \in Account : Import(a)) \/ (\E j \in Job : Age(j)) \/ RunsOut \/ ComesBack
  BY <1>4, <1>16 DEF Import, Age, RunsOut, ComesBack, history
<1> QED BY <1>7, <1>8, <1>9, <1>10, <1>11, <1>12, <1>13, <1>14, <1>15, <1>16 DEF Outside

\* Everything but the workers keeps the invariant.
LEMMA OutsideKeeps ==
  ASSUME BInv, Outside
  PROVE  BInv'
<1>1. /\ RowTypes' /\ AllKept
      /\ UNCHANGED <<run, watermark, read, missed, tried>>
  BY OutsideRows DEF BInv
<1>2. TInv' /\ connected \subseteq connected'
  BY TypesKept, ReadTyped, TwoKinds DEF BInv
<1>3. (missed \subseteq connected \X Account)'
  BY <1>1, <1>2 DEF BInv
<1>4. \A s \in Source : SourceFits(s)'
  BY <1>1, SourceGoes
<1>5. ASSUME NEW w \in Worker PROVE RowHeld(w)' /\ ReadFits(w)'
  <2>1. RowHeld(w) /\ ReadFits(w)
    BY DEF BInv
  <2>2. run[w].pc # "idle" => Kept(run[w].job)
    BY <1>1 DEF BInv, TInv, HasJob, AllKept
  <2>3. RowHeld(w)'
    BY <1>1, <2>1, <2>2 DEF RowHeld, Kept
  <2>4. run[w].pc \in {"guard", "scan", "finish", "stamp"} =>
          rows'[run[w].job].accounts = rows[run[w].job].accounts
    BY <2>1, <2>2 DEF RowHeld, Kept
  <2>5. ReadFits(w)'
    BY <1>1, <1>2, <2>1, <2>4 DEF ReadFits
  <2> QED BY <2>3, <2>5
<1> QED BY <1>2, <1>3, <1>4, <1>5 DEF BInv

-----------------------------------------------------------------------------
\* The steps of the one worker.

\* A worker that is not between its sources sees whatever there is to see.
LEMMA OwedByRows ==
  ASSUME OneWorker, NEW w \in Worker, run'[w].pc \notin {"guard", "scan", "finish"},
         NEW s, Owed(s), tried \subseteq tried',
         \A j \in Job : WillSee(j, s) => rows'[j].status \in Open \/ s \in tried'
  PROVE  Owed(s)'
<1>1. CASE s \in tried
  BY <1>1 DEF Owed
<1>2. ASSUME NEW j \in Job, WillSee(j, s), s \notin tried' PROVE Owed(s)'
  <2>1. rows'[j].status \in Open
    BY <1>2
  <2>2. \A v \in Worker : v = w
    BY DEF OneWorker
  <2>3. WillSee(j, s)'
    BY <2>1, <2>2 DEF WillSee
  <2> QED BY <2>3 DEF Owed
<1> QED BY <1>1, <1>2 DEF Owed

\* What a worker's step has to show: its own parts, and that it owes no less.
LEMMA WorkerFrame ==
  ASSUME BInv, OneWorker, NEW w \in Worker, Work(w) \/ WorkerDies(w),
         \A s \in Source : s \in connected /\ Owed(s) => Owed(s)',
         missed' \subseteq connected \X Account,
         RowHeld(w)', ReadFits(w)'
  PROVE  BInv'
<1>1. UNCHANGED <<connected, graph, request, lost>>
  BY WorkerRows DEF BInv
<1>2. TInv'
  BY TypesKept, TwoKinds DEF BInv
<1>3. \A s \in Source : SourceFits(s)'
  BY <1>1 DEF BInv, SourceFits, At
<1>4. \A v \in Worker : RowHeld(v)' /\ ReadFits(v)'
  BY DEF OneWorker
<1>5. (missed \subseteq connected \X Account)'
  BY <1>1
<1> QED BY <1>2, <1>3, <1>4, <1>5 DEF BInv

LEMMA TickKeeps ==
  ASSUME BInv, OneWorker, NEW w \in Worker, Tick(w)
  PROVE  BInv'
<1>1. AllKept /\ run'[w].pc \in {"idle", "picked"}
  BY Ticks DEF BInv
<1>2. missed' = missed /\ tried' = tried
  BY DEF Tick, history
<1>3. \A s \in Source : Owed(s) => Owed(s)'
  <2>1. \A s \in Source : \A j \in Job : WillSee(j, s) => rows'[j].status \in Open
    BY <1>1 DEF WillSee, AllKept, Kept, Open
  <2> QED BY <1>1, <1>2, <2>1, OwedByRows
<1>4. RowHeld(w)' /\ ReadFits(w)'
  BY <1>1 DEF RowHeld, ReadFits
<1> QED BY <1>2, <1>3, <1>4, WorkerFrame DEF BInv, Work

LEMMA ClaimKeeps ==
  ASSUME BInv, OneWorker, NEW w \in Worker, Claim(w)
  PROVE  BInv'
<1>1. missed' = missed /\ tried' = tried
  BY DEF Claim, history
<1>2. run[w] \in RunType
  BY TypeParts DEF BInv, TInv, RunTypes
<1>3. CASE UNCHANGED rows /\ run'[w] = Idle
  <2>1. run'[w].pc = "idle"
    BY <1>3, IdleType
  <2>2. \A s \in Source : \A j \in Job : WillSee(j, s) => rows'[j].status \in Open
    BY <1>3 DEF WillSee, Open
  <2>3. \A s \in Source : Owed(s) => Owed(s)'
    BY <1>1, <2>1, <2>2, OwedByRows
  <2>4. RowHeld(w)' /\ ReadFits(w)'
    BY <2>1 DEF RowHeld, ReadFits
  <2> QED BY <1>1, <2>3, <2>4, WorkerFrame DEF BInv, Work
<1>4. CASE /\ run'[w] = [run[w] EXCEPT !.pc = "claimed"]
           /\ rows'[run[w].job].status = "running"
           /\ \A k \in Job \ {run[w].job} : rows'[k] = rows[k]
  <2>1. run'[w].pc = "claimed" /\ run'[w].job = run[w].job
    BY <1>2, <1>4 DEF RunType
  <2>2. \A s \in Source : \A j \in Job : WillSee(j, s) => rows'[j].status \in Open
    BY <1>4 DEF WillSee, Open
  <2>3. \A s \in Source : Owed(s) => Owed(s)'
    BY <1>1, <2>1, <2>2, OwedByRows
  <2>4. RowHeld(w)' /\ ReadFits(w)'
    BY <1>4, <2>1 DEF RowHeld, ReadFits
  <2> QED BY <1>1, <2>3, <2>4, WorkerFrame DEF BInv, Work
<1> QED BY <1>3, <1>4, Claims DEF BInv

\* A job given back waits or pauses; one given up on had its sources in sight.
LEMMA LeaveKeeps ==
  ASSUME BInv, OneWorker, NEW w \in Worker, Work(w), NEW status \in WorkerWrites, Leave(w, status),
         run[w].pc \in {"claimed", "guard", "scan"}, missed' = missed, tried \subseteq tried',
         status \in Ended => run[w].pc = "scan" /\ run[w].seen \subseteq tried'
  PROVE  BInv'
<1>1. graph' = graph
  BY WorkerRows DEF BInv
<1>2. /\ run'[w] = Idle
      /\ rows'[run[w].job].status = status
      /\ \A k \in Job \ {run[w].job} : rows'[k] = rows[k]
  BY <1>1, Leaves DEF BInv
<1>3. run'[w].pc = "idle"
  BY <1>2, IdleType
<1>4. rows[run[w].job].status = "running"
  BY DEF BInv, RowHeld
<1>5. \A s \in Source : \A j \in Job : WillSee(j, s) => rows'[j].status \in Open \/ s \in tried'
  <2> SUFFICES ASSUME NEW s \in Source, NEW j \in Job, WillSee(j, s)
               PROVE  rows'[j].status \in Open \/ s \in tried'
    OBVIOUS
  <2>1. CASE j # run[w].job
    BY <1>2, <2>1 DEF WillSee, Open
  <2>2. CASE j = run[w].job /\ status \notin Ended
    BY <1>2, <2>2 DEF WorkerWrites, Open
  <2>3. CASE j = run[w].job /\ status \in Ended
    BY <1>4, <2>3 DEF WillSee, Open
  <2> QED BY <2>1, <2>2, <2>3
<1>6. \A s \in Source : Owed(s) => Owed(s)'
  BY <1>3, <1>5, OwedByRows
<1>7. RowHeld(w)' /\ ReadFits(w)'
  BY <1>3 DEF RowHeld, ReadFits
<1> QED BY <1>6, <1>7, WorkerFrame DEF BInv

\* A run that goes on with its sources: what it will see does not shrink.
LEMMA OwedByRun ==
  ASSUME OneWorker, UNCHANGED <<rows, tried>>, NEW w \in Worker, NEW s, s \in connected, Owed(s),
         \/ run'[w].seen = connected
         \/ /\ run'[w].seen = run[w].seen /\ run'[w].job = run[w].job
            /\ run[w].pc \in {"guard", "scan", "finish"}
  PROVE  Owed(s)'
<1>1. CASE s \in tried
  BY <1>1 DEF Owed
<1>2. ASSUME NEW j \in Job, WillSee(j, s) PROVE Owed(s)'
  <2>1. \A v \in Worker : v = w
    BY DEF OneWorker
  <2>2. WillSee(j, s)'
    BY <1>2, <2>1 DEF WillSee
  <2> QED BY <2>2 DEF Owed
<1> QED BY <1>1, <1>2 DEF Owed

LEMMA PreflightKeeps ==
  ASSUME BInv, OneWorker, NEW w \in Worker, Preflight(w)
  PROVE  BInv'
<1>1. missed' = missed /\ tried' = tried /\ run[w].pc = "claimed" /\ UNCHANGED <<connected, watermark>>
  BY DEF Preflight, history
<1>2. CASE Leave(w, "no_credits")
  BY <1>1, <1>2, LeaveKeeps DEF Work, WorkerWrites, Ended
<1>3. CASE /\ UNCHANGED rowVars
           /\ run'[w] = [run[w] EXCEPT !.pc = "guard", !.seen = connected, !.left = connected,
                                       !.whole = ~watermark]
  <2>1. run[w] \in RunType /\ watermark \in BOOLEAN
    BY TypeParts DEF BInv, TInv, RunTypes, WorldTypes
  <2>2. /\ run'[w].pc = "guard" /\ run'[w].seen = connected /\ run'[w].left = connected
        /\ run'[w].whole = ~watermark /\ run'[w].job = run[w].job
    BY <1>3, <2>1 DEF RunType
  <2>3. \A s \in Source : s \in connected /\ Owed(s) => Owed(s)'
    BY <1>1, <1>3, <2>2, OwedByRun DEF rowVars
  <2>4. RowHeld(w)'
    BY <1>1, <1>3, <2>2 DEF BInv, RowHeld, rowVars
  <2>5. run'[w].whole \/ watermark'
    BY <1>1, <2>1, <2>2, Zenon
  <2>6. ReadFits(w)'
    BY <1>1, <2>2, <2>5 DEF BInv, ReadFits
  <2> QED BY <1>1, <2>3, <2>4, <2>6, WorkerFrame DEF BInv, Work
<1> QED BY <1>2, <1>3, Preflights DEF BInv

LEMMA GuardKeeps ==
  ASSUME BInv, OneWorker, NEW w \in Worker, Guard(w)
  PROVE  BInv'
<1>1. /\ missed' = missed /\ tried' = tried /\ read' = read /\ run[w].pc = "guard"
      /\ UNCHANGED <<connected, watermark>>
  BY DEF Guard, history
<1>2. ASSUME NEW status \in {"no_credits", "provider"}, Leave(w, status)
      PROVE  BInv'
  BY <1>1, <1>2, LeaveKeeps DEF Work, WorkerWrites, Ended
<1>3. CASE /\ UNCHANGED rowVars
           /\ run'[w] = [run[w] EXCEPT !.pc = IF run[w].left # {} THEN "scan" ELSE "finish"]
  <2>1. run[w] \in RunType
    BY TypeParts DEF BInv, TInv, RunTypes
  <2>2. /\ run'[w].pc = IF run[w].left # {} THEN "scan" ELSE "finish"
        /\ run'[w].seen = run[w].seen /\ run'[w].left = run[w].left /\ run'[w].failed = run[w].failed
        /\ run'[w].whole = run[w].whole /\ run'[w].job = run[w].job
    BY <1>3, <2>1 DEF RunType
  <2>3. \A s \in Source : s \in connected /\ Owed(s) => Owed(s)'
    BY <1>1, <1>3, <2>2, OwedByRun DEF rowVars
  <2>4. RowHeld(w)'
    BY <1>1, <1>3, <2>2 DEF BInv, RowHeld, rowVars
  <2>5. ReadFits(w)'
    BY <1>1, <1>3, <2>2 DEF BInv, ReadFits, rowVars
  <2> QED BY <1>1, <2>3, <2>4, <2>5, WorkerFrame DEF BInv, Work
<1> QED BY <1>2, <1>3, Guards DEF BInv

LEMMA ScanKeeps ==
  ASSUME BInv, OneWorker, NEW w \in Worker, NEW s \in Source, Scan(w, s)
  PROVE  BInv'
<1>1. /\ tried' = tried /\ run[w].pc = "scan" /\ s \in run[w].left /\ UNCHANGED <<connected, watermark>>
  BY DEF Scan
<1>2. run[w] \in RunType /\ RowTypes /\ run[w].job \in Job
  BY <1>1, TypeParts DEF BInv, TInv, RunTypes, HasJob
<1>3. UNCHANGED rowVars
  BY DEF Scan
<1> DEFINE past == IF run[w].whole THEN {s} \X rows[run[w].job].accounts ELSE {}
<1>4. PICK failed \in {run[w].failed, run[w].failed \cup {s}} :
        /\ run'[w] = [run[w] EXCEPT !.pc = "guard", !.left = run[w].left \ {s}, !.failed = failed]
        /\ IF failed = run[w].failed /\ s \notin failed
           THEN read' = read \cup past /\ missed' = missed
           ELSE \/ read' = read \cup past /\ missed' = missed
                \/ missed' = missed \cup past /\ read' = read
  BY Scans DEF BInv
<1>5. /\ run'[w].pc = "guard"
      /\ run'[w].seen = run[w].seen /\ run'[w].left = run[w].left \ {s} /\ run'[w].failed = failed
      /\ run'[w].whole = run[w].whole /\ run'[w].job = run[w].job
  BY <1>2, <1>4 DEF RunType
<1>6. past \subseteq {s} \X Account /\ read \subseteq read'
  <2>1. rows[run[w].job].accounts \subseteq Account
    BY <1>2 DEF RowTypes, RowType
  <2> QED BY <1>4, <2>1
<1>7. missed' \subseteq missed \cup ({s} \X Account)
  BY <1>4, <1>6
<1>8. ReadFits(w) /\ s \in run[w].seen /\ s \in connected
  BY <1>1 DEF BInv, ReadFits
<1>9. \A t \in Source : t \in connected /\ Owed(t) => Owed(t)'
  BY <1>1, <1>3, <1>5, OwedByRun DEF rowVars
<1>10. RowHeld(w)'
  BY <1>1, <1>3, <1>5 DEF BInv, RowHeld, rowVars
<1>11. missed' \subseteq run'[w].seen \X Account
  BY <1>1, <1>5, <1>7, <1>8 DEF ReadFits
<1>12. missed' \subseteq connected \X Account
  BY <1>7, <1>8 DEF BInv
<1>13. ASSUME run'[w].whole
       PROVE  (run'[w].seen \ (run'[w].left \cup run'[w].failed)) \X rows'[run'[w].job].accounts \subseteq read'
  <2>1. past = {s} \X rows[run[w].job].accounts
    BY <1>5, <1>13
  <2>2. (run[w].seen \ (run[w].left \cup run[w].failed)) \X rows[run[w].job].accounts \subseteq read
    BY <1>1, <1>5, <1>8, <1>13 DEF ReadFits
  <2>3. s \in failed \/ read' = read \cup past
    BY <1>4
  <2>4. run[w].failed \subseteq failed
    BY <1>4
  <2>5. \A t \in run'[w].seen \ (run'[w].left \cup run'[w].failed) :
          t \in run[w].seen \ (run[w].left \cup run[w].failed) \/ (t = s /\ s \notin failed)
    BY <1>5, <2>4
  <2>6. rows' = rows
    BY <1>3 DEF rowVars
  <2> HIDE DEF past
  <2> QED BY <1>5, <1>6, <2>1, <2>2, <2>3, <2>5, <2>6
<1>14. ReadFits(w)'
  BY <1>1, <1>5, <1>8, <1>11, <1>13 DEF ReadFits
<1> QED BY <1>9, <1>10, <1>12, <1>14, WorkerFrame DEF Work

LEMMA ThrowKeeps ==
  ASSUME BInv, OneWorker, NEW w \in Worker, Throw(w)
  PROVE  BInv'
<1>1. missed' = missed /\ run[w].pc = "scan"
  BY DEF Throw
<1>2. CASE GivesUp(w)
  <2>1. Leave(w, "failed") /\ tried' = tried \cup run[w].seen
    BY <1>2 DEF Throw
  <2> QED BY <1>1, <2>1, LeaveKeeps DEF Work, WorkerWrites, Ended
<1>3. CASE ~GivesUp(w)
  <2>1. Leave(w, "pending") /\ tried' = tried
    BY <1>3 DEF Throw
  <2> QED BY <1>1, <2>1, LeaveKeeps DEF Work, WorkerWrites, Ended
<1> QED BY <1>2, <1>3

LEMMA FinishKeeps ==
  ASSUME BInv, OneWorker, NEW w \in Worker, Finish(w)
  PROVE  BInv'
<1>1. /\ missed' = missed /\ read' = read /\ tried' = tried \cup run[w].seen /\ run[w].pc = "finish"
      /\ UNCHANGED <<connected, watermark>>
  BY DEF Finish
<1>2. /\ run'[w] = [run[w] EXCEPT !.pc = "stamp"]
      /\ rows'[run[w].job].status = "done"
      /\ \A k \in Job : rows'[k].accounts = rows[k].accounts
      /\ \A k \in Job \ {run[w].job} : rows'[k] = rows[k]
  BY Finishes DEF BInv
<1>3. run[w] \in RunType /\ run[w].job \in Job
  BY <1>1, TypeParts DEF BInv, TInv, RunTypes, HasJob
<1>4. /\ run'[w].pc = "stamp"
      /\ run'[w].seen = run[w].seen /\ run'[w].left = run[w].left /\ run'[w].failed = run[w].failed
      /\ run'[w].whole = run[w].whole /\ run'[w].job = run[w].job
  BY <1>2, <1>3 DEF RunType
<1>5. rows[run[w].job].status = "running"
  BY <1>1 DEF BInv, RowHeld
<1>6. \A s \in Source : \A j \in Job : WillSee(j, s) => rows'[j].status \in Open \/ s \in tried'
  <2> SUFFICES ASSUME NEW s \in Source, NEW j \in Job, WillSee(j, s)
               PROVE  rows'[j].status \in Open \/ s \in tried'
    OBVIOUS
  <2>1. CASE j # run[w].job
    BY <1>2, <2>1 DEF WillSee, Open
  <2>2. CASE j = run[w].job
    BY <1>1, <1>5, <2>2 DEF WillSee, Open
  <2> QED BY <2>1, <2>2
<1>7. \A s \in Source : Owed(s) => Owed(s)'
  BY <1>1, <1>4, <1>6, OwedByRows
<1>8. RowHeld(w)'
  BY <1>2, <1>4 DEF RowHeld
<1>9. ReadFits(w)'
  BY <1>1, <1>2, <1>3, <1>4 DEF BInv, ReadFits
<1> QED BY <1>1, <1>7, <1>8, <1>9, WorkerFrame DEF BInv, Work

\* The end of a run, and the death of its worker: the row stays as it is.
LEMMA EndKeeps ==
  ASSUME BInv, OneWorker, NEW w \in Worker, Stamp(w) \/ WorkerDies(w)
  PROVE  BInv'
<1>1. run' = [run EXCEPT ![w] = Idle] /\ UNCHANGED rowVars /\ UNCHANGED history
  BY DEF Stamp, WorkerDies
<1>2. run'[w].pc = "idle"
  BY <1>1, GoesIdle, IdleType DEF BInv
<1>3. \A s \in Source : \A j \in Job : WillSee(j, s) => rows'[j].status \in Open
  BY <1>1 DEF WillSee, Open, rowVars
<1>4. \A s \in Source : Owed(s) => Owed(s)'
  BY <1>1, <1>2, <1>3, OwedByRows DEF history
<1>5. RowHeld(w)' /\ ReadFits(w)'
  BY <1>2 DEF RowHeld, ReadFits
<1> QED BY <1>1, <1>4, <1>5, WorkerFrame DEF BInv, Work, history

-----------------------------------------------------------------------------
LEMMA BStarts == Init => BInv
<1> SUFFICES ASSUME Init PROVE BInv
  OBVIOUS
<1>1. TInv
  BY TypesStart
<1>2. \A s \in Source : request[s].pc = "new"
  BY DEF Init, Request
<1>3. \A s \in Source : SourceFits(s)
  BY <1>2 DEF SourceFits, At
<1>4. \A w \in Worker : run[w].pc = "idle"
  BY IdleType DEF Init
<1>5. \A w \in Worker : RowHeld(w) /\ ReadFits(w)
  BY <1>4 DEF RowHeld, ReadFits
<1> QED BY <1>1, <1>3, <1>5 DEF BInv, Init

LEMMA BKept ==
  ASSUME BInv, OneWorker, [Next]_vars
  PROVE  BInv'
<1>1. CASE UNCHANGED vars
  BY <1>1, Stutters DEF BInv, SourceFits, At, Owed, WillSee, RowHeld, ReadFits, vars, rowVars, world, history
<1>2. CASE Outside
  BY <1>2, OutsideKeeps
<1>3. ASSUME NEW w \in Worker, Work(w) \/ WorkerDies(w)
      PROVE  BInv'
  BY <1>3, TickKeeps, ClaimKeeps, PreflightKeeps, GuardKeeps, ScanKeeps, ThrowKeeps, FinishKeeps,
     EndKeeps DEF Work
<1> QED BY <1>1, <1>2, <1>3, TwoKinds

LEMMA BHolds == ASSUME OneWorker PROVE Spec => []BInv
<1>1. BInv /\ [Next]_vars => BInv'
  BY BKept
<1> QED BY <1>1, BStarts, PTL DEF Spec

\* No source is silently dropped: once the request that connected it is answered, a job
\* that had it in sight is over, or there is one that will have it in sight, whatever
\* request or run was under way when it was connected (enqueueHistoryBackfill).
THEOREM ConnectedStaysOwed == ASSUME OneWorker PROVE Spec => []ConnectedIsOwed
<1>1. BInv => ConnectedIsOwed
  BY DEF BInv, SourceFits, ConnectedIsOwed, Owed
<1> QED BY <1>1, BHolds, PTL

\* A run moves the watermark only when everything ever missed of its own accounts has been
\* read since: a past that could not be read can be read by running the backfill again
\* (contactEnrichmentJobs.mjs: only a clean run stamps).
THEOREM FailedCanBeRead == ASSUME OneWorker PROVE Spec => FailedStaysReadable
<1> DEFINE Readable == \A w \in Worker :
             ~watermark /\ watermark' /\ run[w].pc = "stamp" /\ run[w] # run'[w] =>
               missed \cap (Source \X rows[run[w].job].accounts) \subseteq read
<1>1. ASSUME BInv, [Next]_vars PROVE Readable
  <2> SUFFICES ASSUME NEW w \in Worker, ~watermark, watermark', run[w].pc = "stamp", run[w] # run'[w]
               PROVE  missed \cap (Source \X rows[run[w].job].accounts) \subseteq read
    OBVIOUS
  <2>1. ~UNCHANGED vars
    BY DEF vars
  <2>2. ~Outside
    BY <1>1, OutsideRows DEF BInv
  <2>3. PICK v \in Worker : Work(v) \/ WorkerDies(v)
    BY <1>1, <2>1, <2>2, TwoKinds
  <2>4. v = w
    BY DEF OneWorker
  <2>5. Stamp(w)
    BY <2>3, <2>4 DEF Work, WorkerDies, Tick, Claim, Preflight, Guard, Scan, Throw, Finish
  <2>6. run[w].failed = {}
    BY <2>5 DEF Stamp, Stamped
  <2>7. /\ missed \subseteq run[w].seen \X Account
        /\ (run[w].seen \ (run[w].left \cup run[w].failed)) \X rows[run[w].job].accounts \subseteq read
        /\ run[w].left = {}
    BY <1>1 DEF BInv, ReadFits
  <2> QED BY <2>6, <2>7
<1>2. BInv /\ [Next]_vars => [Readable]_vars
  BY <1>1
<1> QED BY <1>2, BHolds, PTL DEF Spec, FailedStaysReadable
=============================================================================
