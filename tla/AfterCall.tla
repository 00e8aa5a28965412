------------------------------ MODULE AfterCall ------------------------------
(***************************************************************************)
(* What is started in people's repositories after a call, while the code   *)
(* moves from one way of starting it to another.  A seat that switched     *)
(* "after every call" on and connected a repository is served by the old   *)
(* queue (packages/core/src/db/githubDispatch.ts, drained by               *)
(* apps/worker/src/workers/githubDispatch.mjs) until it has a managed      *)
(* webhook (packages/core/src/db/managedWebhooks.ts), and by that webhook, *)
(* through outbound_events, from then on.  The review of a call            *)
(* (apps/worker/src/signals/callScore.mjs) feeds both, one after the other. *)
(*                                                                         *)
(* One call is modelled.  Each of its recordings is reviewed by a process  *)
(* of its own; the first to store a scorecard is the call, and its name is *)
(* the key that both tables deduplicate by.  What becomes of a stored      *)
(* outbound event is WebhookOutbox.                                        *)
(***************************************************************************)
EXTENDS Naturals

CONSTANTS
  Seat,         \* members of the workspace
  Recording,    \* note-takers' recordings of the one call
  Request,      \* requests that change a seat
  MaxAttempts,  \* MAX_ATTEMPTS
  MaxEdit,      \* bound: changes of seats
  MaxFault      \* bound: faults, and reviews that are asked for again

Reconciler == "reconciler"
Syncer     == Request \cup {Reconciler}

ASSUME AfterCallAssumption ==
  /\ Reconciler \notin Request
  /\ MaxAttempts \in Nat \ {0}
  /\ MaxEdit \in Nat /\ MaxFault \in Nat

VARIABLES
  seat,        \* personal_workspaces: the toggle, and whether a repository is connected
  hook,        \* trigger_subscriptions: the number of the seat's managed webhook, 0 if none
  made,        \* [Seat -> webhooks ever made for it]
  sync,        \* [Syncer -> a syncAfterCallWebhook in flight, and what a reconcile has left]
  cards,       \* call_scorecards: the recordings that opened one
  review,      \* [Recording -> how far scoreCall is, and what it read]
  dispatches,  \* github_dispatches: [<<seat, recording>> -> row]
  outbox,      \* outbound_events: <<seat, webhook, recording>>
  edits,       \* changes of seats so far
  faults,      \* faults so far
  (* history *)
  asked,       \* <<seat, recording, way>>: rows ever stored; way 0 is the old queue
  wanted,      \* [Recording -> the seats its last review found switched on]
  looked,      \* recordings whose review has begun to look for who gets a run
  shifted,     \* <<seat, recording>>: the seat's webhook came or went after that
  blind,       \* recordings whose look went unanswered
  hurt,        \* recordings whose last review died, or lost a query
  lost,        \* recordings whose review went on though its scorecard was not stored
  unseen       \* <<r, q>>, both ways: one of the two looked while the other's was still to come, or lost

tables  == <<cards, dispatches, outbox>>
history == <<asked, wanted, looked, shifted, blind, hurt, lost, unseen>>
vars    == <<seat, hook, made, sync, review, tables, edits, faults, history>>

-----------------------------------------------------------------------------
Row    == Seat \X Recording
Absent == [status |-> "none", attempts |-> 0]
NoSync == [pc |-> "idle", of |-> {}, want |-> FALSE, found |-> 0, listed |-> {}, clean |-> {}]

Wants(s) == seat[s].on /\ seat[s].repo
On       == {s \in Seat : Wants(s)}

(* The code that moves the seats has just been deployed: nobody has a webhook yet. *)
Init ==
  /\ seat \in [Seat -> [on : BOOLEAN, repo : BOOLEAN]]
  /\ hook = [s \in Seat |-> 0] /\ made = [s \in Seat |-> 0]
  /\ sync = [p \in Syncer |-> NoSync]
  /\ cards = {}
  /\ review = [r \in Recording |-> [pc |-> "new", seats |-> {}, subs |-> {}]]
  /\ dispatches = [d \in Row |-> Absent]
  /\ outbox = {}
  /\ edits = 0 /\ faults = 0
  /\ asked = {} /\ wanted = [r \in Recording |-> {}] /\ looked = {}
  /\ shifted = {} /\ blind = {} /\ hurt = {} /\ lost = {} /\ unseen = {}

Fault == faults < MaxFault /\ faults' = faults + 1

-----------------------------------------------------------------------------
(* The seat and its webhook *)

(* The toggle, and connecting or disconnecting a repository: the seat is updated, then *)
(* the request makes the webhook match.                                                *)
Edit(q, s) ==
  /\ sync[q].pc = "idle" /\ edits < MaxEdit
  /\ edits' = edits + 1
  /\ \/ seat' = [seat EXCEPT ![s].on = ~@]
     \/ seat' = [seat EXCEPT ![s].repo = ~@]
  /\ sync' = [sync EXCEPT ![q] = [NoSync EXCEPT !.pc = "seat", !.of = {s}]]
  /\ UNCHANGED <<hook, made, review, tables, faults, history>>

(* The worker's reconcile lists the seats that are switched on, as they are now, and the *)
(* webhooks whose seat is not among them.                                                *)
OrphansForgotten == {}
Orphans == {s \in Seat : hook[s] # 0 /\ ~seat[s].on}

Reconcile ==
  LET listed == {<<s, Wants(s)>> : s \in {t \in Seat : seat[t].on}} IN
  /\ sync[Reconciler].pc = "idle"
  /\ listed # {} \/ Orphans # {}
  /\ sync' = [sync EXCEPT ![Reconciler] = [NoSync EXCEPT !.pc = "next", !.listed = listed, !.clean = Orphans]]
  /\ UNCHANGED <<seat, hook, made, review, tables, edits, faults, history>>

(* A listed seat is used as it was listed; the seat of an orphan is read afresh. *)
NextSeat ==
  LET me == sync[Reconciler] IN
  /\ me.pc = "next"
  /\ \/ \E l \in me.listed :
          sync' = [sync EXCEPT ![Reconciler] =
            [me EXCEPT !.pc = "managed", !.of = {l[1]}, !.want = l[2], !.listed = @ \ {l}]]
     \/ /\ me.listed = {}
        /\ \E s \in me.clean :
             sync' = [sync EXCEPT ![Reconciler] =
               [me EXCEPT !.pc = "seat", !.of = {s}, !.clean = @ \ {s}]]
  /\ UNCHANGED <<seat, hook, made, review, tables, edits, faults, history>>

(* One seat is done with: a reconcile that has others left goes on. *)
Synced(p) ==
  IF sync[p].listed \cup sync[p].clean = {} THEN NoSync
  ELSE [NoSync EXCEPT !.pc = "next", !.listed = sync[p].listed, !.clean = sync[p].clean]

ReadSeat(p, s) ==
  /\ sync[p].pc = "seat" /\ s \in sync[p].of
  /\ sync' = [sync EXCEPT ![p].pc = "managed", ![p].want = Wants(s)]
  /\ UNCHANGED <<seat, hook, made, review, tables, edits, faults, history>>

ReadManaged(p, s) ==
  /\ sync[p].pc = "managed" /\ s \in sync[p].of
  /\ sync' = [sync EXCEPT ![p].pc = "write", ![p].found = hook[s]]
  /\ UNCHANGED <<seat, hook, made, review, tables, edits, faults, history>>

(* A webhook is made unless somebody else made one first (a unique index), and removed *)
(* by the number that was read, with every event stored for it.                        *)
WriteHook(p, s) ==
  /\ sync[p].pc = "write" /\ s \in sync[p].of
  /\ LET makes   == sync[p].want /\ sync[p].found = 0 /\ hook[s] = 0
         removes == ~sync[p].want /\ sync[p].found # 0 /\ hook[s] = sync[p].found
     IN
       /\ made' = IF makes THEN [made EXCEPT ![s] = @ + 1] ELSE made
       /\ hook' = IF makes THEN [hook EXCEPT ![s] = made[s] + 1]
                  ELSE IF removes THEN [hook EXCEPT ![s] = 0] ELSE hook
       /\ outbox' = IF removes THEN {e \in outbox : e[1] # s} ELSE outbox
       /\ shifted' = IF makes \/ removes THEN shifted \cup ({s} \X looked) ELSE shifted
  /\ sync' = [sync EXCEPT ![p] = Synced(p)]
  /\ UNCHANGED <<seat, review, cards, dispatches, edits, faults,
                 asked, wanted, looked, blind, hurt, lost, unseen>>

(* A query fails: a request gives up, a reconcile goes on with the next seat; or the *)
(* process dies.                                                                     *)
SyncFails(p) ==
  /\ sync[p].pc \in {"seat", "managed", "write"}
  /\ Fault
  /\ \E left \in {Synced(p), NoSync} : sync' = [sync EXCEPT ![p] = left]
  /\ UNCHANGED <<seat, hook, made, review, tables, edits, history>>

-----------------------------------------------------------------------------
(* The review of a recording *)

Goes(r, pc, seats, subs) ==
  review' = [review EXCEPT ![r] = [pc |-> pc, seats |-> seats, subs |-> subs]]

(* A scorecard that ANOTHER recording opened makes this review a quiet one; a look that goes *)
(* unanswered has found none.                                                              *)
OpenedElsewhere(r) == cards \ {r} # {}

(* Scorecards that a look cannot find: still to be stored, or not stored. *)
Hidden(r) == {q \in Recording \ {r} : review[q].pc = "store" \/ q \in lost}

BothWays(r, others) == ({r} \X others) \cup (others \X {r})

Resolve(r) ==
  /\ review[r].pc = "new"
  /\ \/ /\ ~OpenedElsewhere(r)
        /\ Goes(r, "store", {}, {})
        /\ unseen' = unseen \cup BothWays(r, Hidden(r))
        /\ UNCHANGED faults
     \/ /\ OpenedElsewhere(r)
        /\ Goes(r, "done", {}, {})
        /\ UNCHANGED <<faults, unseen>>
     \/ /\ OpenedElsewhere(r) /\ Fault
        /\ Goes(r, "store", {}, {})
        /\ unseen' = unseen \cup BothWays(r, Hidden(r) \cup (cards \ {r}))
  /\ UNCHANGED <<seat, hook, made, sync, tables, edits,
                 asked, wanted, looked, shifted, blind, hurt, lost>>

StoredLast(r) == cards
Stored(r) == cards \cup {r}

(* The answer of the upsert is not looked at: a review whose scorecard was not stored *)
(* goes on to start the call's runs all the same.                                     *)
Store(r) ==
  /\ review[r].pc = "store"
  /\ \/ /\ cards' = Stored(r)
        /\ lost' = lost \ {r}
        /\ UNCHANGED faults
     \/ /\ Fault
        /\ lost' = lost \cup ({r} \ cards)
        /\ UNCHANGED cards
  /\ Goes(r, "seats", {}, {})
  /\ UNCHANGED <<seat, hook, made, sync, dispatches, outbox, edits,
                 asked, wanted, looked, shifted, blind, hurt, unseen>>

(* enqueueGithubDispatches, a round trip at a time.  No seats, no look; an error of the *)
(* first read is taken for no seats.                                                    *)
ReadSeats(r) ==
  /\ review[r].pc = "seats"
  /\ \/ /\ Goes(r, IF On = {} THEN "listen" ELSE "moved", On, {})
        /\ hurt' = hurt \ {r} /\ UNCHANGED faults
     \/ /\ Fault
        /\ Goes(r, "listen", {}, {})
        /\ hurt' = hurt \cup {r}
  /\ wanted' = [wanted EXCEPT ![r] = On]
  /\ looked' = looked \cup {r}
  /\ UNCHANGED <<seat, hook, made, sync, tables, edits, asked, shifted, blind, lost, unseen>>

(* seatsWithAfterCallWebhook: who has moved is skipped; an error is taken for nobody. *)
UnmovedAll(r)     == review[r].seats
UnmovedSwapped(r) == {s \in review[r].seats : hook[s] # 0}
Unmoved(r) == {s \in review[r].seats : hook[s] = 0}

ReadMoved(r) ==
  /\ review[r].pc = "moved"
  /\ \E left \in {Unmoved(r), review[r].seats} :
       /\ Goes(r, IF left = {} THEN "listen" ELSE "queue", left, {})
       /\ IF left = Unmoved(r) THEN UNCHANGED <<faults, blind>>
          ELSE Fault /\ blind' = blind \cup {r}
  /\ UNCHANGED <<seat, hook, made, sync, tables, edits, asked, wanted, looked, shifted, hurt, lost, unseen>>

(* One upsert per seat; a row there is, in whatever state, is left alone.  An error is *)
(* not counted and not raised.                                                         *)
Queue(r, s) ==
  LET left == review[r].seats \ {s} IN
  /\ review[r].pc = "queue" /\ s \in review[r].seats
  /\ Goes(r, IF left = {} THEN "listen" ELSE "queue", left, {})
  /\ \/ /\ dispatches' = [dispatches EXCEPT ![<<s, r>>] =
                            IF @ = Absent THEN [@ EXCEPT !.status = "pending"] ELSE @]
        /\ asked' = asked \cup {<<s, r, 0>>}
        /\ UNCHANGED <<faults, hurt>>
     \/ Fault /\ hurt' = hurt \cup {r} /\ UNCHANGED <<dispatches, asked>>
  /\ UNCHANGED <<seat, hook, made, sync, cards, outbox, edits, wanted, looked, shifted, blind, lost, unseen>>

(* emitEvent: the webhooks that listen and have not had this event; then one insert for *)
(* all of them, which a webhook removed in between makes fail as a whole.               *)
Listeners(r) == {<<s, hook[s], r>> : s \in {t \in Seat : hook[t] # 0}} \ outbox

Listen(r) ==
  /\ review[r].pc = "listen"
  /\ Goes(r, IF Listeners(r) = {} THEN "done" ELSE "insert", {}, Listeners(r))
  /\ UNCHANGED <<seat, hook, made, sync, tables, edits, faults, history>>

AllThere(r) == \A e \in review[r].subs : hook[e[1]] = e[2]

Insert(r) ==
  /\ review[r].pc = "insert"
  /\ outbox' = IF AllThere(r) THEN outbox \cup review[r].subs ELSE outbox
  /\ asked' = IF AllThere(r) THEN asked \cup {<<e[1], r, e[2]>> : e \in review[r].subs} ELSE asked
  /\ Goes(r, "done", {}, {})
  /\ UNCHANGED <<seat, hook, made, sync, cards, dispatches, edits, faults,
                 wanted, looked, shifted, blind, hurt, lost, unseen>>

(* The process dies, or a query whose failure ends the review's part in this fails. *)
ReviewDies(r) ==
  /\ review[r].pc \notin {"new", "done"}
  /\ Fault
  /\ Goes(r, "done", {}, {})
  /\ hurt' = hurt \cup {r}
  /\ UNCHANGED <<seat, hook, made, sync, tables, edits, asked, wanted, looked, shifted, blind, lost, unseen>>

(* The recording is delivered again. *)
Again(r) ==
  /\ review[r].pc = "done"
  /\ Fault
  /\ Goes(r, "new", {}, {})
  /\ UNCHANGED <<seat, hook, made, sync, tables, edits, history>>

-----------------------------------------------------------------------------
(* The drain of the old queue: deliverOne reads the seat, posts, and marks the row.  Only *)
(* it changes a stored row, so the three are one step; which rows are due is left open.   *)

(* markDispatchDelivered and markDispatchFailure; a refusal is for good. *)
Marked(row, came) ==
  IF came = "taken" THEN [status |-> "delivered", attempts |-> row.attempts + 1]
  ELSE IF came = "refused" THEN [status |-> "dead", attempts |-> 100]
  ELSE [status |-> IF row.attempts + 1 >= MaxAttempts THEN "dead" ELSE "pending",
        attempts |-> row.attempts + 1]

(* A seat switched off since refuses for itself. *)
ComesPassedOver(d) == IF Wants(d[1]) THEN {"taken", "refused", "failed"} ELSE {}
Comes(d) == IF Wants(d[1]) THEN {"taken", "refused", "failed"} ELSE {"refused"}

Deliver(d) ==
  /\ dispatches[d].status = "pending"
  /\ \E came \in Comes(d) :
       dispatches' = [dispatches EXCEPT ![d] = Marked(@, came)]
  /\ UNCHANGED <<seat, hook, made, sync, review, cards, outbox, edits, faults, history>>

-----------------------------------------------------------------------------
SyncStep(p) == \E s \in Seat : ReadSeat(p, s) \/ ReadManaged(p, s) \/ WriteHook(p, s)
Reconciling == Reconcile \/ NextSeat \/ SyncStep(Reconciler)
Reviewing(r) ==
  \/ Resolve(r) \/ Store(r) \/ ReadSeats(r) \/ ReadMoved(r)
  \/ \E s \in Seat : Queue(r, s)
  \/ Listen(r) \/ Insert(r) \/ ReviewDies(r) \/ Again(r)
Draining == \E d \in Row : Deliver(d)

Next ==
  \/ \E q \in Request : SyncStep(q) \/ \E s \in Seat : Edit(q, s)
  \/ Reconciling
  \/ \E p \in Syncer : SyncFails(p)
  \/ \E r \in Recording : Reviewing(r)
  \/ Draining

Spec == Init /\ [][Next]_vars

(* Cron starts a reconcile every five minutes and a drain twice a minute, and what they  *)
(* started goes on.  People, requests and reviews owe nothing.                           *)
FairSpec == Spec /\ WF_vars(Reconciling) /\ WF_vars(Draining)

-----------------------------------------------------------------------------
(* Properties *)

SyncPc   == {"idle", "next", "seat", "managed", "write"}
ReviewPc == {"new", "store", "seats", "moved", "queue", "listen", "insert", "done"}

(* Types of the tables, of the processes and of the history. *)
TypeOK ==
  /\ seat \in [Seat -> [on : BOOLEAN, repo : BOOLEAN]]
  /\ hook \in [Seat -> Nat] /\ made \in [Seat -> Nat]
  /\ sync \in [Syncer -> [pc : SyncPc, of : SUBSET Seat, want : BOOLEAN, found : Nat,
                          listed : SUBSET (Seat \X BOOLEAN), clean : SUBSET Seat]]
  /\ cards \subseteq Recording
  /\ review \in [Recording -> [pc : ReviewPc, seats : SUBSET Seat, subs : SUBSET (Seat \X Nat \X Recording)]]
  /\ dispatches \in [Row -> [status : {"none", "pending", "delivered", "dead"}, attempts : Nat]]
  /\ outbox \subseteq Seat \X Nat \X Recording
  /\ edits \in Nat /\ faults \in Nat
  /\ asked \subseteq Seat \X Recording \X Nat
  /\ wanted \in [Recording -> SUBSET Seat]
  /\ looked \subseteq Recording /\ shifted \subseteq Row
  /\ blind \subseteq Recording /\ hurt \subseteq Recording
  /\ lost \subseteq Recording /\ unseen \subseteq Recording \X Recording

(* The move never starts a call's run twice in a seat whose webhook neither came nor went *)
(* since the call's review began to look, though recordings are delivered again           *)
(* (githubDispatch.ts:59-60).                                                             *)
OnceUnlessMoved ==
  \A a, b \in asked :
    a[1] = b[1] /\ a[2] = b[2] /\ a[3] # b[3] => <<a[1], a[2]>> \in shifted \/ a[2] \in blind

Served(s, r) == \E a \in asked : a[1] = s /\ a[2] = r

(* ... and never drops it: a review that got to its end has stored a run for every seat   *)
(* that wanted one, unless the webhook of that seat came or went meanwhile, or that of    *)
(* another seat did, which fails the insert for all.                                      *)
KeptUnlessMoved ==
  \A r \in Recording :
    review[r].pc = "done" /\ r \notin hurt =>
      \A s \in wanted[r] : Served(s, r) \/ \E t \in Seat : <<t, r>> \in shifted

(* One call, one run: of two recordings that both start runs, one looked for a scorecard  *)
(* before the other had stored its own, or after the other had failed to, or its look went *)
(* unanswered (callScore.mjs:585: "once per call").                                        *)
OneCall == \A a, b \in asked : a[2] # b[2] => <<a[2], b[2]>> \in unseen

(* Once people leave the toggles alone, every seat has its webhook exactly when it wants  *)
(* it, whatever stale copies the requests and the reconcile write.                        *)
WebhooksMatch == <>[](\A s \in Seat : (hook[s] # 0) <=> Wants(s))

(* The old queue empties: what is in it is delivered or dead.                             *)
QueueEmpties == <>[](\A d \in Row : dispatches[d].status # "pending")
=============================================================================
