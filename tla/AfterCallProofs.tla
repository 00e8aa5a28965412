-------------------------- MODULE AfterCallProofs --------------------------
(***************************************************************************)
(* What holds of the move from the queue to the webhooks for any seats,    *)
(* recordings and requests, and without a bound on faults or edits: its    *)
(* types, that it starts no run twice and drops none while no webhook      *)
(* comes or goes, and that one call starts one run.                        *)
(***************************************************************************)
EXTENDS AfterCall, TLAPS

-----------------------------------------------------------------------------
\* Types.

SyncRec   == [pc : SyncPc, of : SUBSET Seat, want : BOOLEAN, found : Nat,
              listed : SUBSET (Seat \X BOOLEAN), clean : SUBSET Seat]
ReviewRec == [pc : ReviewPc, seats : SUBSET Seat, subs : SUBSET (Seat \X Nat \X Recording)]
RowRec    == [status : {"none", "pending", "delivered", "dead"}, attempts : Nat]

LEMMA WantsBool == ASSUME TypeOK, NEW s \in Seat PROVE Wants(s) \in BOOLEAN
  BY DEF TypeOK, Wants

\* A seat's record with one of its two fields changed is one.
LEMMA SeatFlips ==
  ASSUME NEW S, NEW f \in [S -> [on : BOOLEAN, repo : BOOLEAN]], NEW s \in S
  PROVE  /\ [f EXCEPT ![s].on = ~@] \in [S -> [on : BOOLEAN, repo : BOOLEAN]]
         /\ [f EXCEPT ![s].repo = ~@] \in [S -> [on : BOOLEAN, repo : BOOLEAN]]
  <1> DEFINE R == [on : BOOLEAN, repo : BOOLEAN]
  <1>1. \A x \in R : [x EXCEPT !.on = ~x.on] \in R /\ [x EXCEPT !.repo = ~x.repo] \in R
    OBVIOUS
  <1>2. f[s] \in R
    OBVIOUS
  <1> QED
    BY <1>1, <1>2

LEMMA SyncTypes ==
  ASSUME TypeOK, NEW p \in Syncer
  PROVE  /\ NoSync \in SyncRec
         /\ Synced(p) \in SyncRec
         /\ sync[p] \in SyncRec
  BY DEF TypeOK, NoSync, Synced, SyncRec, SyncPc

LEMMA GoesOn ==
  ASSUME TypeOK, NEW r \in Recording, NEW pc \in ReviewPc,
         NEW seats \in SUBSET Seat, NEW subs \in SUBSET (Seat \X Nat \X Recording), Goes(r, pc, seats, subs)
  PROVE  /\ review' \in [Recording -> ReviewRec]
         /\ review'[r].pc = pc /\ review'[r].seats = seats /\ review'[r].subs = subs
         /\ \A q \in Recording : q # r => review'[q] = review[q]
  <1>1. [pc |-> pc, seats |-> seats, subs |-> subs] \in ReviewRec
    BY DEF ReviewRec
  <1> QED
    BY <1>1 DEF TypeOK, Goes, ReviewRec

\* The same without anything in hand.
LEMMA GoesEmpty ==
  ASSUME TypeOK, NEW r \in Recording, NEW pc \in ReviewPc, Goes(r, pc, {}, {})
  PROVE  /\ review' \in [Recording -> ReviewRec]
         /\ review'[r].pc = pc /\ review'[r].seats = {} /\ review'[r].subs = {}
         /\ \A q \in Recording : q # r => review'[q] = review[q]
  <1>1. {} \in SUBSET Seat /\ {} \in SUBSET (Seat \X Nat \X Recording)
    OBVIOUS
  <1> QED
    BY <1>1, GoesOn

LEMMA FaultCounts == ASSUME TypeOK, Fault PROVE faults' \in Nat
  BY DEF TypeOK, Fault

LEMMA InitTypes == Init => TypeOK
  <1> SUFFICES ASSUME Init PROVE TypeOK
    OBVIOUS
  <1>1. NoSync \in SyncRec
    BY DEF NoSync, SyncRec, SyncPc
  <1>2. sync \in [Syncer -> SyncRec]
    BY <1>1 DEF Init
  <1>3. review \in [Recording -> ReviewRec]
    <2>1. [pc |-> "new", seats |-> {}, subs |-> {}] \in ReviewRec
      BY DEF ReviewRec, ReviewPc
    <2> QED
      BY <2>1 DEF Init
  <1>4. Absent \in RowRec
    BY DEF Absent, RowRec
  <1>5. dispatches \in [Row -> RowRec]
    BY <1>4 DEF Init
  <1> QED
    BY <1>2, <1>3, <1>5 DEF Init, TypeOK, SyncRec, ReviewRec, RowRec

LEMMA SyncSideTypes ==
  ASSUME TypeOK, NEW p \in Syncer, NEW s \in Seat
  PROVE  /\ ReadSeat(p, s) => TypeOK'
         /\ ReadManaged(p, s) => TypeOK'
         /\ WriteHook(p, s) => TypeOK'
  <1> USE DEF history, tables
  <1>1. ASSUME ReadSeat(p, s) PROVE TypeOK'
    <2>1. [sync[p] EXCEPT !.pc = "managed", !.want = Wants(s)] \in SyncRec
      BY WantsBool, SyncTypes DEF SyncRec, SyncPc
    <2> QED
      BY <1>1, <2>1 DEF ReadSeat, TypeOK, SyncRec
  <1>2. ASSUME ReadManaged(p, s) PROVE TypeOK'
    <2>1. [sync[p] EXCEPT !.pc = "write", !.found = hook[s]] \in SyncRec
      BY SyncTypes DEF TypeOK, SyncRec, SyncPc
    <2> QED
      BY <1>2, <2>1 DEF ReadManaged, TypeOK, SyncRec
  <1>3. ASSUME WriteHook(p, s) PROVE TypeOK'
    BY <1>3, SyncTypes DEF WriteHook, TypeOK, SyncRec, Row
  <1> QED
    BY <1>1, <1>2, <1>3

LEMMA SyncFailsTypes == ASSUME TypeOK, NEW p \in Syncer, SyncFails(p) PROVE TypeOK'
  BY SyncTypes, FaultCounts DEF SyncFails, TypeOK, SyncRec, tables, history

LEMMA SeatSideTypes ==
  ASSUME TypeOK
  PROVE  /\ \A q \in Request, s \in Seat : Edit(q, s) => TypeOK'
         /\ Reconcile => TypeOK'
         /\ NextSeat => TypeOK'
  <1> USE DEF history, tables
  <1>1. Reconciler \in Syncer /\ Request \subseteq Syncer
    BY DEF Syncer
  <1>2. ASSUME NEW q \in Request, NEW s \in Seat, Edit(q, s) PROVE TypeOK'
    <2>1. seat' \in [Seat -> [on : BOOLEAN, repo : BOOLEAN]]
      <3>1. seat \in [Seat -> [on : BOOLEAN, repo : BOOLEAN]]
        BY DEF TypeOK
      <3>2. /\ [seat EXCEPT ![s].on = ~@] \in [Seat -> [on : BOOLEAN, repo : BOOLEAN]]
            /\ [seat EXCEPT ![s].repo = ~@] \in [Seat -> [on : BOOLEAN, repo : BOOLEAN]]
        BY <3>1, SeatFlips, Zenon
      <3> QED
        BY <1>2, <3>2, Zenon DEF Edit
    <2>2. [NoSync EXCEPT !.pc = "seat", !.of = {s}] \in SyncRec
      BY <1>1, SyncTypes DEF SyncRec, SyncPc
    <2> QED
      BY <1>1, <1>2, <2>1, <2>2 DEF Edit, TypeOK, SyncRec
  <1>3. ASSUME Reconcile PROVE TypeOK'
    <2> DEFINE listed == {<<s, Wants(s)>> : s \in {t \in Seat : seat[t].on}}
    <2>1. listed \subseteq Seat \X BOOLEAN
      BY WantsBool
    <2>2. [NoSync EXCEPT !.pc = "next", !.listed = listed, !.clean = Orphans] \in SyncRec
      BY <1>1, <2>1, SyncTypes DEF SyncRec, SyncPc, Orphans
    <2>3. sync' = [sync EXCEPT ![Reconciler] = [NoSync EXCEPT !.pc = "next", !.listed = listed, !.clean = Orphans]]
      BY <1>3 DEF Reconcile
    <2>4. sync' \in [Syncer -> SyncRec]
      BY <1>1, <2>2, <2>3 DEF TypeOK, SyncRec
    <2> QED
      BY <1>3, <2>4 DEF Reconcile, TypeOK, SyncRec
  <1>4. ASSUME NextSeat PROVE TypeOK'
    <2> DEFINE me == sync[Reconciler]
    <2>1. me \in SyncRec
      BY <1>1, SyncTypes
    <2>2. \A l \in me.listed :
            [me EXCEPT !.pc = "managed", !.of = {l[1]}, !.want = l[2], !.listed = @ \ {l}] \in SyncRec
      BY <2>1 DEF SyncRec, SyncPc
    <2>3. \A s \in me.clean : [me EXCEPT !.pc = "seat", !.of = {s}, !.clean = @ \ {s}] \in SyncRec
      BY <2>1 DEF SyncRec, SyncPc
    <2>4. \E to \in SyncRec : sync' = [sync EXCEPT ![Reconciler] = to]
      BY <1>4, <2>2, <2>3, Zenon DEF NextSeat
    <2>5. sync' \in [Syncer -> SyncRec]
      BY <1>1, <2>4 DEF TypeOK, SyncRec
    <2> QED
      BY <1>4, <2>5 DEF NextSeat, TypeOK, SyncRec
  <1> QED
    BY <1>2, <1>3, <1>4

LEMMA DeliverTypes == ASSUME TypeOK, NEW d \in Row, Deliver(d) PROVE TypeOK'
  <1>1. dispatches[d].attempts \in Nat /\ MaxAttempts \in Nat
    BY AfterCallAssumption DEF TypeOK
  <1>2. \A came : Marked(dispatches[d], came) \in RowRec
    BY <1>1 DEF Marked, RowRec
  <1>3. PICK came : dispatches' = [dispatches EXCEPT ![d] = Marked(@, came)]
    BY DEF Deliver
  <1>4. dispatches' \in [Row -> RowRec]
    BY <1>2, <1>3 DEF TypeOK, RowRec
  <1> QED
    BY <1>4 DEF Deliver, TypeOK, RowRec, history

\* A step of a review whose record stays one and whose tables keep their types.
LEMMA ReviewTypes ==
  ASSUME TypeOK, NEW r \in Recording
  PROVE  /\ Resolve(r) => TypeOK'
         /\ Store(r) => TypeOK'
         /\ ReadSeats(r) => TypeOK'
         /\ ReadMoved(r) => TypeOK'
         /\ Listen(r) => TypeOK'
         /\ Insert(r) => TypeOK'
         /\ ReviewDies(r) => TypeOK'
         /\ Again(r) => TypeOK'
  <1> USE DEF tables, history
  <1>2. Listeners(r) \subseteq Seat \X Nat \X Recording
    BY DEF Listeners, TypeOK
  <1>3. \A e \in review[r].subs : <<e[1], r, e[2]>> \in Seat \X Recording \X Nat
    BY DEF TypeOK
  <1>4. review[r].seats \subseteq Seat /\ Unmoved(r) \subseteq Seat
    BY DEF TypeOK, Unmoved
  <1>5. ASSUME Resolve(r) PROVE TypeOK'
    <2>1. review' \in [Recording -> ReviewRec]
      BY <1>5, GoesOn DEF Resolve, ReviewPc
    <2> QED
      BY <1>5, <2>1, FaultCounts DEF Resolve, Hidden, BothWays, TypeOK, ReviewRec
  <1>6. ASSUME Store(r) PROVE TypeOK'
    <2>1. review' \in [Recording -> ReviewRec]
      BY <1>6, GoesOn DEF Store, ReviewPc
    <2> QED
      BY <1>6, <2>1, FaultCounts DEF Store, Stored, TypeOK, ReviewRec
  <1>7. ASSUME ReadSeats(r) PROVE TypeOK'
    <2>1. On \in SUBSET Seat
      BY DEF On
    <2>2. review' \in [Recording -> ReviewRec]
      BY <1>7, <2>1, GoesOn DEF ReadSeats, ReviewPc
    <2>3. wanted' \in [Recording -> SUBSET Seat]
      BY <1>7, <2>1 DEF ReadSeats, TypeOK
    <2> QED
      BY <1>7, <2>2, <2>3, FaultCounts DEF ReadSeats, TypeOK, ReviewRec
  <1>8. ASSUME ReadMoved(r) PROVE TypeOK'
    <2>1. review' \in [Recording -> ReviewRec]
      BY <1>4, <1>8, GoesOn DEF ReadMoved, ReviewPc
    <2> QED
      BY <1>8, <2>1, FaultCounts DEF ReadMoved, TypeOK, ReviewRec
  <1>10. ASSUME Listen(r) PROVE TypeOK'
    <2>1. review' \in [Recording -> ReviewRec]
      BY <1>2, <1>10, GoesOn DEF Listen, ReviewPc
    <2> QED
      BY <1>10, <2>1 DEF Listen, TypeOK, ReviewRec
  <1>11. ASSUME Insert(r) PROVE TypeOK'
    <2>1. review' \in [Recording -> ReviewRec]
      BY <1>11, GoesOn DEF Insert, ReviewPc
    <2>2. review[r].subs \subseteq Seat \X Nat \X Recording
      BY DEF TypeOK
    <2>3. asked' \subseteq Seat \X Recording \X Nat /\ outbox' \subseteq Seat \X Nat \X Recording
      BY <1>3, <1>11, <2>2 DEF Insert, TypeOK
    <2> QED
      BY <1>11, <2>1, <2>3 DEF Insert, TypeOK, ReviewRec
  <1>12. ASSUME ReviewDies(r) PROVE TypeOK'
    <2>1. review' \in [Recording -> ReviewRec]
      BY <1>12, GoesOn DEF ReviewDies, ReviewPc
    <2> QED
      BY <1>12, <2>1, FaultCounts DEF ReviewDies, TypeOK, ReviewRec
  <1>13. ASSUME Again(r) PROVE TypeOK'
    <2>1. review' \in [Recording -> ReviewRec]
      BY <1>13, GoesOn DEF Again, ReviewPc
    <2> QED
      BY <1>13, <2>1, FaultCounts DEF Again, TypeOK, ReviewRec
  <1> QED
    BY <1>5, <1>6, <1>7, <1>8, <1>10, <1>11, <1>12, <1>13

LEMMA QueueTypes ==
  ASSUME TypeOK, NEW r \in Recording, NEW s \in Seat, Queue(r, s)
  PROVE  TypeOK'
  <1> USE DEF tables, history
  <1>1. review' \in [Recording -> ReviewRec]
    <2> DEFINE left == review[r].seats \ {s}
               pc   == IF left = {} THEN "listen" ELSE "queue"
    <2>1. left \in SUBSET Seat /\ pc \in ReviewPc
      BY DEF TypeOK, ReviewPc
    <2>2. Goes(r, pc, left, {})
      BY DEF Queue
    <2>3. {} \in SUBSET (Seat \X Nat \X Recording)
      OBVIOUS
    <2> HIDE DEF left, pc
    <2> QED
      BY <2>1, <2>2, <2>3, GoesOn
  <1>2. \A x \in RowRec : [x EXCEPT !.status = "pending"] \in RowRec
    BY DEF RowRec
  <1>3. dispatches' \in [Row -> RowRec]
    <2> DEFINE new == IF dispatches[<<s, r>>] = Absent THEN [dispatches[<<s, r>>] EXCEPT !.status = "pending"]
                      ELSE dispatches[<<s, r>>]
    <2>1. dispatches[<<s, r>>] \in RowRec
      BY DEF TypeOK, Row, RowRec
    <2>2. new \in RowRec
      BY <1>2, <2>1
    <2>3. dispatches' = dispatches \/ dispatches' = [dispatches EXCEPT ![<<s, r>>] = new]
      BY DEF Queue
    <2> HIDE DEF new
    <2> QED
      BY <2>2, <2>3 DEF TypeOK, RowRec
  <1> QED
    BY <1>1, <1>3, FaultCounts DEF Queue, TypeOK, ReviewRec, RowRec

LEMMA TypesKept == TypeOK /\ [Next]_vars => TypeOK'
  <1> SUFFICES ASSUME TypeOK, [Next]_vars PROVE TypeOK'
    OBVIOUS
  <1>1. Reconciler \in Syncer /\ Request \subseteq Syncer
    BY DEF Syncer
  <1>2. ASSUME NEW p \in Syncer, SyncStep(p) PROVE TypeOK'
    BY <1>2, SyncSideTypes DEF SyncStep
  <1>3. ASSUME NEW r \in Recording, Reviewing(r) PROVE TypeOK'
    <2>1. CASE \E s \in Seat : Queue(r, s)
      BY <2>1, QueueTypes
    <2> QED
      BY <1>3, <2>1, ReviewTypes DEF Reviewing
  <1>4. ASSUME Reconciling PROVE TypeOK'
    BY <1>1, <1>2, <1>4, SeatSideTypes DEF Reconciling
  <1>5. ASSUME UNCHANGED vars PROVE TypeOK'
    BY <1>5 DEF vars, tables, history, TypeOK
  <1> QED
    BY <1>1, <1>2, <1>3, <1>4, <1>5, SeatSideTypes, SyncFailsTypes, DeliverTypes DEF Next, Draining

(* The tables, the processes and the history keep their types. *)
THEOREM AfterCallTypes == Spec => []TypeOK
  BY InitTypes, TypesKept, PTL DEF Spec

-----------------------------------------------------------------------------
\* The inductive invariant.

At(r, pcs) == review[r].pc \in pcs

\* The scorecard of r is stored, or its review went on without.
Carded(r) == r \in cards \cup lost

\* A review that is past its look for seats has its recording on record.
Looking ==
  /\ \A r \in Recording : At(r, {"moved", "queue", "listen", "insert"}) => r \in looked
  /\ \A r \in Recording : At(r, {"seats", "moved", "queue", "listen", "insert"}) => Carded(r)
  /\ \A a \in asked : Carded(a[2]) /\ a[2] \in looked

\* What was stored, or is about to be, goes the way the seat is served, unless its
\* webhook came or went since the review began to look, or the look was blind.
WayFits ==
  /\ \A a \in asked : <<a[1], a[2]>> \in shifted \/ a[2] \in blind \/ a[3] = hook[a[1]]
  /\ \A r \in Recording : At(r, {"queue"}) =>
       \A s \in review[r].seats : <<s, r>> \in shifted \/ r \in blind \/ hook[s] = 0
  /\ \A r \in Recording : At(r, {"insert"}) =>
       \A e \in review[r].subs : e[3] = r /\ e[2] # 0 /\ (<<e[1], r>> \in shifted \/ e[2] = hook[e[1]])

\* A seat that wanted a run has one, or it is still in the review's hands.
InHand(r, s) ==
  \/ Served(s, r)
  \/ At(r, {"moved"}) /\ s \in review[r].seats
  \/ At(r, {"queue"}) /\ (s \in review[r].seats \/ hook[s] # 0)
  \/ At(r, {"listen"}) /\ hook[s] # 0
  \/ At(r, {"insert"}) /\ <<s, hook[s], r>> \in review[r].subs

Excused(r) == r \in hurt \/ \E t \in Seat : <<t, r>> \in shifted

Kept ==
  /\ \A e \in outbox : Served(e[1], e[3])
  /\ \A r \in Recording : Excused(r) \/ \A s \in wanted[r] : InHand(r, s)

\* Of two recordings with a scorecard, stored, lost or about to be stored, one could not
\* have seen the other's.
Opens(r) == Carded(r) \/ At(r, {"store"})

OneOpens == \A q, r \in Recording : q # r /\ Opens(q) /\ Opens(r) => <<q, r>> \in unseen

CallInv == TypeOK /\ Looking /\ WayFits /\ Kept /\ OneOpens

LEMMA InitCall == Init => CallInv
  BY InitTypes DEF Init, CallInv, Looking, WayFits, Kept, OneOpens, Opens, Carded, At

-----------------------------------------------------------------------------
\* The steps of the seats, and of the drain, that the review does not see.

Aside == UNCHANGED <<hook, review, cards, outbox, history>>

LEMMA AsideSteps ==
  ASSUME [Next]_vars
  PROVE  \/ Aside
         \/ \E p \in Syncer, s \in Seat : WriteHook(p, s)
         \/ \E r \in Recording : Reviewing(r)
  <1>1. Reconciler \in Syncer /\ Request \subseteq Syncer
    BY DEF Syncer
  <1>2. ASSUME NEW p \in Syncer, SyncStep(p) PROVE Aside \/ \E s \in Seat : WriteHook(p, s)
    BY <1>2 DEF SyncStep, ReadSeat, ReadManaged, Aside, tables
  <1>3. CASE \E q \in Request : SyncStep(q)
    BY <1>1, <1>2, <1>3
  <1>4. CASE \E q \in Request, s \in Seat : Edit(q, s)
    BY <1>4 DEF Edit, Aside, tables
  <1>5. CASE Reconciling
    BY <1>1, <1>2, <1>5 DEF Reconciling, Reconcile, NextSeat, Aside, tables
  <1>6. CASE \E p \in Syncer : SyncFails(p)
    BY <1>6 DEF SyncFails, Aside, tables
  <1>7. CASE Draining
    BY <1>7 DEF Draining, Deliver, Aside
  <1>8. CASE UNCHANGED vars
    BY <1>8 DEF vars, Aside, tables
  <1> QED
    BY <1>3, <1>4, <1>5, <1>6, <1>7, <1>8 DEF Next

LEMMA AsideKeeps ==
  ASSUME CallInv, Aside
  PROVE  (Looking /\ WayFits /\ Kept /\ OneOpens)'
  BY DEF CallInv, Aside, history, Looking, WayFits, Kept, OneOpens, Opens, Carded, At, InHand, Excused, Served

\* A webhook that comes or goes is a shift for every review that has begun to look;
\* the others have nothing in hand.
LEMMA WriteHookKeeps ==
  ASSUME CallInv, NEW p \in Syncer, NEW s \in Seat, WriteHook(p, s)
  PROVE  (Looking /\ WayFits /\ Kept /\ OneOpens)'
  <1>1. /\ UNCHANGED <<review, cards, asked, wanted, looked, blind, hurt, lost, unseen>>
        /\ outbox' \subseteq outbox /\ shifted \subseteq shifted'
    BY DEF WriteHook
  <1>2. /\ \A t \in Seat : t # s => hook'[t] = hook[t]
        /\ hook'[s] = hook[s] \/ \A r \in looked : <<s, r>> \in shifted'
    BY DEF WriteHook, CallInv, TypeOK
  <1>3. TypeOK /\ TypeOK'
    BY SyncSideTypes DEF CallInv
  <1>4. Looking' /\ OneOpens'
    BY <1>1 DEF CallInv, Looking, OneOpens, Opens, Carded, At
  <1>5. WayFits'
    <2>1. \A a \in asked : a[1] \in Seat /\ a[2] \in looked
      BY <1>3 DEF CallInv, Looking, TypeOK, Carded
    <2>2. \A r \in Recording : \A e \in review[r].subs : e[1] \in Seat
      BY <1>3 DEF TypeOK
    <2>3. \A r \in Recording : review[r].seats \subseteq Seat
      BY <1>3 DEF TypeOK
    <2> QED
      BY <1>1, <1>2, <2>1, <2>2, <2>3 DEF CallInv, Looking, WayFits, At, Carded
  <1>6. Kept'
    <2>1. \A r \in Recording : wanted[r] \subseteq Seat
      BY <1>3 DEF TypeOK
    <2>2. ASSUME NEW r \in Recording, NEW t \in wanted[r], InHand(r, t)
          PROVE  InHand(r, t)' \/ Excused(r)'
      BY <1>1, <1>2, <2>1, <2>2 DEF CallInv, Looking, InHand, Excused, At, Served, Carded
    <2> QED
      BY <1>1, <2>2 DEF CallInv, Kept, Excused, Served
  <1> QED
    BY <1>4, <1>5, <1>6

-----------------------------------------------------------------------------
\* A step of one review leaves what the others have in hand, and what is on record
\* only grows; so it is enough to look at the review that moves and at what it stores.

Frame(r) ==
  /\ \A q \in Recording : q # r => /\ review'[q] = review[q] /\ wanted'[q] = wanted[q]
                                   /\ q \in hurt' <=> q \in hurt
  /\ hook' = hook /\ shifted' = shifted
  /\ cards \cup lost \subseteq cards' \cup lost' /\ looked \subseteq looked' /\ blind \subseteq blind' /\ asked \subseteq asked'
  /\ unseen \subseteq unseen'

\* What is to be shown of review r after its step, and of what it stored.
LooksOn(r) ==
  /\ At(r, {"moved", "queue", "listen", "insert"}) => r \in looked
  /\ At(r, {"seats", "moved", "queue", "listen", "insert"}) => Carded(r)

GoesRight(r) ==
  /\ At(r, {"queue"}) => \A s \in review[r].seats : <<s, r>> \in shifted \/ r \in blind \/ hook[s] = 0
  /\ At(r, {"insert"}) => \A e \in review[r].subs :
                            e[3] = r /\ e[2] # 0 /\ (<<e[1], r>> \in shifted \/ e[2] = hook[e[1]])

KeepsAll(r) == Excused(r) \/ \A s \in wanted[r] : InHand(r, s)

StoresRight(r) ==
  /\ \A a \in asked' \ asked : /\ a[2] = r /\ Carded(r)' /\ r \in looked
                               /\ <<a[1], r>> \in shifted \/ r \in blind \/ a[3] = hook[a[1]]
  /\ \A e \in outbox' : e \in outbox \/ Served(e[1], e[3])'

LEMMA FrameKeeps ==
  ASSUME CallInv, NEW r \in Recording, Frame(r), LooksOn(r)', GoesRight(r)', KeepsAll(r)', StoresRight(r), OneOpens'
  PROVE  (Looking /\ WayFits /\ Kept /\ OneOpens)'
  <1>1. Looking'
    BY DEF CallInv, Frame, LooksOn, StoresRight, Looking, At, Carded
  <1>2. WayFits'
    <2>1. \A q \in Recording : GoesRight(q)'
      BY DEF CallInv, WayFits, GoesRight, Frame, At
    <2>2. \A a \in asked' : <<a[1], a[2]>> \in shifted' \/ a[2] \in blind' \/ a[3] = hook'[a[1]]
      BY DEF CallInv, WayFits, Frame, StoresRight
    <2> QED
      BY <2>1, <2>2 DEF WayFits, GoesRight
  <1>3. Kept'
    <2>1. \A s, q : Served(s, q) => Served(s, q)'
      BY DEF Frame, Served
    <2>2. ASSUME NEW q \in Recording, q # r PROVE KeepsAll(q)'
      BY <2>1, <2>2 DEF CallInv, Kept, KeepsAll, InHand, Excused, Frame, At
    <2>3. \A e \in outbox' : Served(e[1], e[3])'
      BY <2>1 DEF CallInv, Kept, StoresRight
    <2> QED
      BY <2>2, <2>3 DEF Kept, KeepsAll
  <1> QED
    BY <1>1, <1>2, <1>3

\* The first steps: the look for a scorecard, the store, a new start.
LEMMA OpenKeeps ==
  ASSUME CallInv, NEW r \in Recording, Resolve(r) \/ Store(r) \/ Again(r)
  PROVE  (Looking /\ WayFits /\ Kept /\ OneOpens)'
  <1> USE DEF history, tables
  <1>1. TypeOK
    BY DEF CallInv
  <1>2. PICK pc \in {"new", "store", "seats", "done"} : Goes(r, pc, {}, {})
    BY DEF Resolve, Store, Again
  <1>3. /\ review'[r].pc = pc
        /\ \A q \in Recording : q # r => review'[q] = review[q]
    BY <1>1, <1>2, GoesEmpty DEF ReviewPc
  <1>4. /\ UNCHANGED <<hook, shifted, looked, blind, asked, wanted, hurt, outbox>>
        /\ cards \cup lost \subseteq cards' \cup lost' /\ unseen \subseteq unseen'
    <2>1. CASE Resolve(r)
      <3>1. unseen \subseteq unseen'
        BY <2>1 DEF Resolve
      <3> QED
        BY <2>1, <3>1 DEF Resolve
    <2>2. CASE Store(r)
      BY <2>2 DEF Store, Stored
    <2>3. CASE Again(r)
      BY <2>3 DEF Again
    <2> QED
      BY <2>1, <2>2, <2>3
  <1>5. At(r, {"new", "store", "done"}) /\ (pc = "seats" => Carded(r)')
    BY <1>1, <1>3 DEF Resolve, Store, Stored, Again, At, Carded, CallInv, TypeOK, Goes
  <1>6. Frame(r) /\ LooksOn(r)' /\ GoesRight(r)' /\ KeepsAll(r)' /\ StoresRight(r)
    <2>1. Frame(r)
      BY <1>3, <1>4 DEF Frame
    <2>5. LooksOn(r)' /\ GoesRight(r)'
      BY <1>3, <1>5 DEF LooksOn, GoesRight, At
    <2>2. \A s, q : Served(s, q) => Served(s, q)'
      BY <1>4 DEF Served
    <2>3. KeepsAll(r)'
      BY <1>4, <1>5, <2>2 DEF CallInv, Kept, KeepsAll, Excused, InHand, At
    <2>4. StoresRight(r)
      BY <1>4 DEF StoresRight
    <2> QED
      BY <2>1, <2>3, <2>4, <2>5
  <1>7. OneOpens'
    <2>1. CASE Resolve(r)
      <3>1. UNCHANGED <<cards, lost>>
        BY <2>1 DEF Resolve
      <3>2. CASE review'[r].pc = "store"
        <4>1. ASSUME NEW q \in Recording \ {r}, Opens(q)'
              PROVE  q \in Hidden(r) \/ q \in cards \ {r}
          BY <1>3, <3>1, <4>1 DEF Opens, Carded, At, Hidden
        <4>2. ASSUME NEW q \in Recording \ {r}, Opens(q)'
              PROVE  <<q, r>> \in unseen' /\ <<r, q>> \in unseen'
          <5>1. CASE ~OpenedElsewhere(r) /\ unseen' = unseen \cup BothWays(r, Hidden(r))
            BY <4>1, <4>2, <5>1 DEF OpenedElsewhere, BothWays
          <5>2. CASE unseen' = unseen \cup BothWays(r, Hidden(r) \cup (cards \ {r}))
            BY <4>1, <4>2, <5>2 DEF BothWays
          <5>3. ~Goes(r, "done", {}, {})
            BY <1>1, <3>2, GoesEmpty DEF ReviewPc
          <5> QED
            BY <2>1, <5>1, <5>2, <5>3, Zenon DEF Resolve
        <4>3. \A q \in Recording \ {r} : Opens(q)' => Opens(q)
          BY <1>3, <3>1 DEF Opens, Carded, At
        <4>4. ASSUME NEW q \in Recording, NEW t \in Recording, q # t, Opens(q)', Opens(t)'
              PROVE  <<q, t>> \in unseen'
          BY <1>4, <4>2, <4>3, <4>4 DEF CallInv, OneOpens
        <4> QED
          BY <4>4 DEF OneOpens
      <3>3. CASE review'[r].pc # "store"
        <4>1. \A q \in Recording : Opens(q)' => Opens(q)
          BY <1>3, <3>1, <3>3 DEF Opens, Carded, At
        <4> QED
          BY <1>4, <4>1 DEF CallInv, OneOpens
      <3> QED
        BY <3>2, <3>3
    <2>2. CASE Store(r)
      <3>1. \A q \in Recording : Opens(q)' => Opens(q)
        BY <1>3, <2>2 DEF Store, Stored, Opens, Carded, At
      <3> QED
        BY <1>4, <3>1 DEF CallInv, OneOpens
    <2>3. CASE Again(r)
      BY <1>3, <2>3 DEF Again, CallInv, OneOpens, Opens, Carded, At, Goes
    <2> QED
      BY <2>1, <2>2, <2>3
  <1> QED
    BY <1>6, <1>7, FrameKeeps

\* The look for the seats, and for who has moved.
LEMMA LookKeeps ==
  ASSUME CallInv, NEW r \in Recording, ReadSeats(r) \/ ReadMoved(r)
  PROVE  (Looking /\ WayFits /\ Kept /\ OneOpens)'
  <1> USE DEF tables
  <1>1. TypeOK
    BY DEF CallInv
  <1>2. CASE ReadSeats(r)
    <2>1. /\ UNCHANGED <<hook, cards, outbox, asked, shifted, blind, lost, unseen>>
          /\ looked' = looked \cup {r} /\ wanted' = [wanted EXCEPT ![r] = On]
          /\ At(r, {"seats"})
      BY <1>2 DEF ReadSeats, At
    <2>2. On \in SUBSET Seat /\ {} \in SUBSET (Seat \X Nat \X Recording)
      BY DEF On
    <2>3. /\ \A q \in Recording : q # r => review'[q] = review[q] /\ wanted'[q] = wanted[q]
          /\ wanted'[r] = On /\ review'[r].pc \in {"moved", "listen"}
          /\ \/ hurt' = hurt \ {r} /\ (On = {} \/ (review'[r].pc = "moved" /\ review'[r].seats = On))
             \/ hurt' = hurt \cup {r}
      <3>1. CASE Fault /\ Goes(r, "listen", {}, {}) /\ hurt' = hurt \cup {r}
        BY <1>1, <2>1, <3>1, GoesEmpty DEF ReviewPc, TypeOK
      <3>2. CASE Goes(r, IF On = {} THEN "listen" ELSE "moved", On, {}) /\ hurt' = hurt \ {r}
        <4>1. (IF On = {} THEN "listen" ELSE "moved") \in ReviewPc
          BY DEF ReviewPc
        <4> QED
          BY <1>1, <2>1, <2>2, <3>2, <4>1, GoesOn DEF TypeOK
      <3> QED
        BY <1>2, <3>1, <3>2 DEF ReadSeats
    <2>4. Frame(r)
      BY <2>1, <2>3 DEF Frame
    <2>5. LooksOn(r)' /\ GoesRight(r)' /\ StoresRight(r)
      BY <2>1, <2>3 DEF LooksOn, GoesRight, StoresRight, At, CallInv, Looking, Carded
    <2>6. KeepsAll(r)'
      BY <2>3 DEF KeepsAll, Excused, InHand, At
    <2>7. OneOpens'
      BY <2>1, <2>3 DEF CallInv, OneOpens, Opens, Carded, At
    <2> QED
      BY <2>4, <2>5, <2>6, <2>7, FrameKeeps
  <1>3. CASE ReadMoved(r)
    <2>1. /\ UNCHANGED <<hook, cards, outbox, asked, wanted, looked, shifted, hurt, lost, unseen>>
          /\ At(r, {"moved"})
      BY <1>3 DEF ReadMoved, At
    <2>2. PICK left \in {Unmoved(r), review[r].seats} :
            /\ Goes(r, IF left = {} THEN "listen" ELSE "queue", left, {})
            /\ IF left = Unmoved(r) THEN UNCHANGED blind ELSE blind' = blind \cup {r}
      BY <1>3 DEF ReadMoved
    <2>3. /\ left \in SUBSET Seat
          /\ \A s \in review[r].seats : s \in left \/ hook[s] # 0
      BY <1>1, <2>2 DEF Unmoved, TypeOK
    <2>4. /\ \A q \in Recording : q # r => review'[q] = review[q]
          /\ review'[r].seats = left
          /\ IF left = {} THEN review'[r].pc = "listen" ELSE review'[r].pc = "queue"
      <3>1. /\ (IF left = {} THEN "listen" ELSE "queue") \in ReviewPc
            /\ {} \in SUBSET (Seat \X Nat \X Recording)
        BY DEF ReviewPc
      <3> QED
        BY <1>1, <2>2, <2>3, <3>1, GoesOn
    <2>5. Frame(r)
      BY <2>1, <2>2, <2>4 DEF Frame
    <2>6. LooksOn(r)' /\ StoresRight(r)
      BY <2>1, <2>4 DEF LooksOn, StoresRight, At, CallInv, Looking, Carded
    <2>7. GoesRight(r)'
      BY <2>1, <2>2, <2>4 DEF GoesRight, At, Unmoved
    <2>8. KeepsAll(r)'
      BY <2>1, <2>3, <2>4 DEF KeepsAll, Excused, InHand, At, Served, CallInv, Kept
    <2>9. OneOpens'
      BY <2>1, <2>4 DEF CallInv, OneOpens, Opens, Carded, At
    <2> QED
      BY <2>5, <2>6, <2>7, <2>8, <2>9, FrameKeeps
  <1> QED
    BY <1>2, <1>3

\* What is stored: a row of the queue, or the events for the webhooks.
LEMMA StoredServes ==
  \A s, r, w : <<s, r, w>> \in asked' => Served(s, r)'
  BY DEF Served

LEMMA QueueKeeps ==
  ASSUME CallInv, NEW r \in Recording, NEW s \in Seat, Queue(r, s)
  PROVE  (Looking /\ WayFits /\ Kept /\ OneOpens)'
  <1> DEFINE left == review[r].seats \ {s}
             pc   == IF left = {} THEN "listen" ELSE "queue"
  <1>1. TypeOK
    BY DEF CallInv
  <1>2. /\ UNCHANGED <<hook, cards, outbox, wanted, looked, shifted, blind, lost, unseen>>
        /\ At(r, {"queue"}) /\ s \in review[r].seats /\ Goes(r, pc, left, {})
        /\ \/ asked' = asked \cup {<<s, r, 0>>} /\ UNCHANGED hurt
           \/ UNCHANGED asked /\ hurt' = hurt \cup {r}
    BY DEF Queue, At
  <1>3. /\ \A q \in Recording : q # r => review'[q] = review[q]
        /\ review'[r].seats = left /\ review'[r].pc = pc
    <2>1. left \in SUBSET Seat /\ pc \in ReviewPc /\ {} \in SUBSET (Seat \X Nat \X Recording)
      BY <1>1 DEF TypeOK, ReviewPc
    <2> HIDE DEF left, pc
    <2> QED
      BY <1>1, <1>2, <2>1, GoesOn
  <1>4. Frame(r)
    BY <1>2, <1>3 DEF Frame
  <1>5. LooksOn(r)' /\ GoesRight(r)'
    BY <1>2, <1>3 DEF LooksOn, GoesRight, At, CallInv, Looking, WayFits, Carded
  <1>6. StoresRight(r)
    BY <1>2 DEF StoresRight, At, CallInv, Looking, WayFits, Carded
  <1>7. KeepsAll(r)'
    <2>1. CASE hurt' = hurt \cup {r}
      BY <2>1 DEF KeepsAll, Excused
    <2>2. CASE asked' = asked \cup {<<s, r, 0>>} /\ UNCHANGED hurt
      <3>1. ASSUME NEW t, InHand(r, t) PROVE InHand(r, t)'
        <4>1. CASE t = s
          <5>1. <<s, r, 0>> \in asked'
            BY <2>2
          <5>2. Served(s, r)'
            BY <5>1, StoredServes
          <5> QED
            BY <4>1, <5>2 DEF InHand
        <4>2. CASE t # s
          BY <1>2, <1>3, <2>2, <3>1, <4>2 DEF InHand, Served, At
        <4> QED
          BY <4>1, <4>2
      <3> QED
        BY <1>2, <2>2, <3>1 DEF KeepsAll, Excused, CallInv, Kept
    <2> QED
      BY <1>2, <2>1, <2>2
  <1>8. OneOpens'
    BY <1>2, <1>3 DEF CallInv, OneOpens, Opens, Carded, At
  <1> QED
    BY <1>4, <1>5, <1>6, <1>7, <1>8, FrameKeeps

LEMMA EventKeeps ==
  ASSUME CallInv, NEW r \in Recording, Listen(r) \/ Insert(r) \/ ReviewDies(r)
  PROVE  (Looking /\ WayFits /\ Kept /\ OneOpens)'
  <1> USE DEF tables, history
  <1>1. TypeOK
    BY DEF CallInv
  <1>2. CASE Listen(r)
    <2>1. /\ UNCHANGED <<hook, cards, outbox, asked, wanted, looked, shifted, blind, hurt, lost, unseen>>
          /\ At(r, {"listen"})
      BY <1>2 DEF Listen, At
    <2>2. /\ \A q \in Recording : q # r => review'[q] = review[q]
          /\ review'[r].subs = Listeners(r)
          /\ review'[r].pc = IF Listeners(r) = {} THEN "done" ELSE "insert"
      <3>1. /\ (IF Listeners(r) = {} THEN "done" ELSE "insert") \in ReviewPc
            /\ {} \in SUBSET Seat /\ Listeners(r) \in SUBSET (Seat \X Nat \X Recording)
        BY <1>1 DEF ReviewPc, Listeners, TypeOK
      <3>2. Goes(r, IF Listeners(r) = {} THEN "done" ELSE "insert", {}, Listeners(r))
        BY <1>2 DEF Listen
      <3> QED
        BY <1>1, <3>1, <3>2, GoesOn
    <2>3. Frame(r)
      BY <2>1, <2>2 DEF Frame
    <2>4. LooksOn(r)' /\ GoesRight(r)' /\ StoresRight(r)
      BY <2>1, <2>2 DEF LooksOn, GoesRight, StoresRight, At, CallInv, Looking, Listeners, Carded
    <2>5. KeepsAll(r)'
      <3>1. ASSUME NEW s \in Seat, hook[s] # 0 PROVE Served(s, r) \/ <<s, hook[s], r>> \in Listeners(r)
        BY <3>1 DEF Listeners, CallInv, Kept
      <3>2. ASSUME NEW s \in wanted[r], InHand(r, s) PROVE InHand(r, s)'
        BY <1>1, <2>1, <2>2, <3>1, <3>2 DEF InHand, Served, At, TypeOK
      <3> QED
        BY <2>1, <3>2 DEF KeepsAll, Excused, CallInv, Kept
    <2>6. OneOpens'
      BY <2>1, <2>2 DEF CallInv, OneOpens, Opens, Carded, At
    <2> QED
      BY <2>3, <2>4, <2>5, <2>6, FrameKeeps
  <1>3. CASE Insert(r)
    <2>1. /\ UNCHANGED <<hook, cards, wanted, looked, shifted, blind, hurt, lost, unseen>>
          /\ At(r, {"insert"}) /\ Goes(r, "done", {}, {})
          /\ IF AllThere(r) THEN /\ outbox' = outbox \cup review[r].subs
                                 /\ asked' = asked \cup {<<e[1], r, e[2]>> : e \in review[r].subs}
             ELSE UNCHANGED <<outbox, asked>>
      BY <1>3 DEF Insert, At
    <2>2. /\ \A q \in Recording : q # r => review'[q] = review[q]
          /\ review'[r].pc = "done"
      BY <1>1, <2>1, GoesEmpty DEF ReviewPc
    <2>3. Frame(r)
      BY <2>1, <2>2 DEF Frame
    <2>4. \A e \in review[r].subs : e[3] = r /\ e[2] # 0 /\ (<<e[1], r>> \in shifted \/ e[2] = hook[e[1]])
      BY <2>1 DEF CallInv, WayFits
    <2>5. LooksOn(r)' /\ GoesRight(r)'
      BY <2>2 DEF LooksOn, GoesRight, At
    <2>9. ASSUME AllThere(r), NEW e \in review[r].subs PROVE Served(e[1], r)'
      <3>1. <<e[1], r, e[2]>> \in {<<x[1], r, x[2]>> : x \in review[r].subs}
        OBVIOUS
      <3>2. <<e[1], r, e[2]>> \in asked'
        BY <2>1, <2>9, <3>1, Zenon
      <3> QED
        BY <3>2, StoredServes
    <2>6. StoresRight(r)
      <3>1. \A e \in outbox' : e \in outbox \/ Served(e[1], e[3])'
        BY <2>1, <2>4, <2>9
      <3>2. ASSUME NEW a \in asked' \ asked
            PROVE  \E e \in review[r].subs : a = <<e[1], r, e[2]>>
        BY <2>1, <3>2
      <3>3. Carded(r)' /\ r \in looked' /\ UNCHANGED <<hook, shifted>>
        BY <2>1 DEF At, CallInv, Looking, Carded
      <3> QED
        BY <2>1, <2>4, <3>1, <3>2, <3>3 DEF StoresRight
    <2>7. KeepsAll(r)'
      <3>1. CASE AllThere(r)
        <4>1. ASSUME NEW s \in wanted[r], InHand(r, s) PROVE Served(s, r)'
          <5>1. CASE Served(s, r)
            BY <2>1, <3>1, <5>1 DEF Served
          <5>2. CASE <<s, hook[s], r>> \in review[r].subs
            BY <2>9, <3>1, <5>2
          <5> QED
            BY <2>1, <4>1, <5>1, <5>2 DEF InHand, At
        <4> QED
          BY <2>1, <4>1 DEF KeepsAll, Excused, InHand, CallInv, Kept
      <3>2. CASE ~AllThere(r)
        <4>1. PICK e \in review[r].subs : hook[e[1]] # e[2]
          BY <3>2 DEF AllThere
        <4>2. e[1] \in Seat /\ <<e[1], r>> \in shifted
          BY <1>1, <2>4, <4>1 DEF TypeOK
        <4> QED
          BY <2>1, <4>2 DEF KeepsAll, Excused
      <3> QED
        BY <3>1, <3>2
    <2>8. OneOpens'
      BY <2>1, <2>2 DEF CallInv, OneOpens, Opens, Carded, At
    <2> QED
      BY <2>3, <2>5, <2>6, <2>7, <2>8, FrameKeeps
  <1>4. CASE ReviewDies(r)
    <2>1. /\ UNCHANGED <<hook, cards, outbox, asked, wanted, looked, shifted, blind, lost, unseen>>
          /\ hurt' = hurt \cup {r} /\ Goes(r, "done", {}, {})
      BY <1>4 DEF ReviewDies
    <2>2. /\ \A q \in Recording : q # r => review'[q] = review[q]
          /\ review'[r].pc = "done"
      BY <1>1, <2>1, GoesEmpty DEF ReviewPc
    <2>3. Frame(r)
      BY <2>1, <2>2 DEF Frame
    <2>4. LooksOn(r)' /\ GoesRight(r)' /\ StoresRight(r) /\ KeepsAll(r)'
      BY <2>1, <2>2 DEF LooksOn, GoesRight, StoresRight, KeepsAll, Excused, At
    <2>5. OneOpens'
      BY <2>1, <2>2 DEF CallInv, OneOpens, Opens, Carded, At
    <2> QED
      BY <2>3, <2>4, <2>5, FrameKeeps
  <1> QED
    BY <1>2, <1>3, <1>4

-----------------------------------------------------------------------------
LEMMA CallInvKept == CallInv /\ [Next]_vars => CallInv'
  <1> SUFFICES ASSUME CallInv, [Next]_vars PROVE CallInv'
    OBVIOUS
  <1>1. TypeOK'
    BY TypesKept DEF CallInv
  <1>2. CASE Aside
    BY <1>1, <1>2, AsideKeeps DEF CallInv
  <1>3. CASE \E p \in Syncer, s \in Seat : WriteHook(p, s)
    BY <1>1, <1>3, WriteHookKeeps DEF CallInv
  <1>4. CASE \E r \in Recording : Reviewing(r)
    BY <1>1, <1>4, OpenKeeps, LookKeeps, QueueKeeps, EventKeeps DEF CallInv, Reviewing
  <1> QED
    BY <1>2, <1>3, <1>4, AsideSteps

LEMMA CallInvHolds == Spec => []CallInv
  BY InitCall, CallInvKept, PTL DEF Spec

(* A seat is served in two ways only when its webhook came or went after the review of *)
(* the call had begun to look for who gets a run, or the look at who has moved went     *)
(* unanswered.                                                                         *)
THEOREM NoSecondRun == Spec => []OnceUnlessMoved
  <1>1. CallInv => OnceUnlessMoved
    BY DEF CallInv, WayFits, OnceUnlessMoved
  <1> QED
    BY <1>1, CallInvHolds, PTL

(* A review that got to its end has stored a run for every seat that wanted one, unless *)
(* a webhook came or went meanwhile.                                                    *)
THEOREM NoneDropped == Spec => []KeptUnlessMoved
  <1>1. CallInv => KeptUnlessMoved
    BY DEF CallInv, Kept, Excused, InHand, At, KeptUnlessMoved
  <1> QED
    BY <1>1, CallInvHolds, PTL

(* Of two recordings of a call that both start runs, one looked before the other had     *)
(* stored its scorecard, or after it had failed to, or its look went unanswered.         *)
THEOREM OneCallOneRun == Spec => []OneCall
  <1>1. CallInv => OneCall
    BY DEF CallInv, TypeOK, Looking, OneOpens, Opens, OneCall
  <1> QED
    BY <1>1, CallInvHolds, PTL
=============================================================================
