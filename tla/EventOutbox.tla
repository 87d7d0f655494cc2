---------------------------- MODULE EventOutbox -----------------------------
(***************************************************************************)
(* The durable event outbox of bookclerkd on the atomic database backend:  *)
(* `domain_events` and `event_deliveries` (store/event_outbox.rs and the   *)
(* plans of sql_plan/named.rs), the dispatchers and the delivery workers   *)
(* of every node (event_worker.rs), and the operator's endpoints.          *)
(*                                                                         *)
(* A statement or an atomic plan is one step.  A dispatcher's tick and a   *)
(* worker's claim are sequences of such steps, open to everybody else's.   *)
(* Two statements are joined only where the later one is conditional on    *)
(* what the earlier one read: a retry's attempt_count cannot change while  *)
(* its fence holds, and a dispatch snapshot is written once.               *)
(*                                                                         *)
(* Time is reduced to the comparisons made with it: a lease is "live" or   *)
(* "past"; run_after has come ("now"), will come ("later"), or is the year *)
(* 9999 ("never").  created_at is the number of the insert.                *)
(***************************************************************************)
EXTENDS Integers, FiniteSets

CONSTANTS
    Events,        \* ids of published domain events
    Plugins,       \* plugin keys that may subscribe
    Live,          \* plugins in the catalog from the start
    WakeEvents,    \* events whose type, account and payload match every wake grant
    KeyOf,         \* ordering_key of an event
    Dispatchers,   \* one per node
    Workers,       \* delivery workers of all nodes
    Nobody,        \* lease_owner IS NULL
    None,          \* "no delivery", "no event"
    MaxAttempts,   \* EVENT_DELIVERY_MAX_ATTEMPTS (8 in the code)
    MaxInFlight,   \* events.concurrency
    WakePage,      \* rows of one wake page
    Outcomes,      \* what the handlers of an instance may answer
    MaxClaims,     \* bound: claims of a delivery of each event
    MaxSlices,     \* bound: wake slices of one event
    MaxFaults,     \* bound: crashes and failed statements
    MaxLost,       \* bound: claims whose reply is lost
    MaxOps         \* bound: operator requests

ASSUME OutboxIds == None \notin Events /\ Nobody \notin Workers /\ Live \subseteq Plugins
ASSUME OutboxOutcomes == Outcomes \subseteq {"ack", "reject", "dead_letter", "retry",
                                  "suspend_timer", "suspend_event", "suspend_both"}
ASSUME OutboxLimits == /\ MaxAttempts \in Nat \ {0} /\ MaxInFlight \in Nat \ {0}
                       /\ WakePage \in Nat \ {0}
                       /\ MaxClaims \in [Events -> Nat] /\ MaxSlices \in Nat /\ MaxFaults \in Nat
                       /\ MaxLost \in Nat /\ MaxOps \in Nat

VARIABLES
    event,      \* domain_events
    row,        \* event_deliveries, one possible row for each (event, plugin)
    catalog,    \* live subscribers of event_subscriber_nodes
    disp,       \* the dispatchers' ticks
    work,       \* the delivery workers
    inserts,    \* deliveries inserted so far: the source of created_at
    faults,     \* faults so far (bounded)
    lost,       \* lost claim replies so far (bounded)
    ops         \* operator requests so far (bounded)

vars == <<event, row, catalog, disp, work, inserts, faults, lost, ops>>
-----------------------------------------------------------------------------
(* Rows *)

Deliveries == Events \X Plugins
Finished == {"acked", "rejected", "dead_letter"}
NoSnapshot == {None}

Event == [state : {"absent", "pending", "dispatched"},
          at : Nat,                                   \* created_at
          snapshot : (SUBSET Plugins) \cup {NoSnapshot},
          wake : BOOLEAN, token : Nat, lease : {"none", "live", "past"},
          claims : Nat, cursor : Nat]

NoEvent == [state |-> "absent", at |-> 0, snapshot |-> NoSnapshot, wake |-> FALSE,
            token |-> 0, lease |-> "none", claims |-> 0, cursor |-> 0]

\* The last four fields are history: how the row became pending, how often its
\* lease ran out, whether the operator revived it, and the matching events
\* published since it was parked.
Delivery == [state : {"absent", "pending", "running"} \cup Finished,
             attempt : Nat, gen : Nat, owner : Workers \cup {Nobody},
             lease : {"none", "live", "past"}, cancel : BOOLEAN, resume : BOOLEAN,
             ready : {"now", "later", "never"}, checkpoint : BOOLEAN,
             wake : BOOLEAN, created : Nat,
             from : {"new", "retry", "suspend", "expiry", "release", "operator"},
             expired : Nat, revived : BOOLEAN, owed : SUBSET Events]

NoDelivery == [state |-> "absent", attempt |-> 0, gen |-> 0, owner |-> Nobody,
               lease |-> "none", cancel |-> FALSE, resume |-> FALSE, ready |-> "now",
               checkpoint |-> FALSE, wake |-> FALSE, created |-> 0, from |-> "new",
               expired |-> 0, revived |-> FALSE, owed |-> {}]

\* wake_event_type is set and the row waits: what a wake page selects.
Parked(d) == row[d].state = "pending" /\ row[d].wake

Running(p) == {d \in Deliveries : d[2] = p /\ row[d].state = "running"}

NewTick == [pc |-> "top", catalog |-> {}, event |-> None, todo |-> {}, token |-> 0,
            ids |-> {}, last |-> FALSE, upto |-> 0]

Idle == [pc |-> "top", job |-> None, gen |-> 0, page |-> {}, stop |-> "no"]

Init == /\ event = [e \in Events |-> NoEvent]
        /\ row = [d \in Deliveries |-> NoDelivery]
        /\ catalog = Live
        /\ disp = [x \in Dispatchers |-> NewTick]
        /\ work = [w \in Workers |-> Idle]
        /\ inserts = 0 /\ faults = 0 /\ lost = 0 /\ ops = 0
-----------------------------------------------------------------------------
(* Publishing and the subscriber catalog *)

Published == {e \in Events : event[e].state # "absent"}

\* A duplicate dedup key leaves the table alone: every id is published once.
Publish(e) ==
    /\ event[e].state = "absent"
    /\ event' = [event EXCEPT ![e] = [@ EXCEPT !.state = "pending", !.wake = TRUE,
                 !.at = Cardinality(Published) + 1]]
    /\ row' = [d \in Deliveries |-> IF e \in WakeEvents /\ Parked(d)
                                    THEN [row[d] EXCEPT !.owed = @ \cup {e}] ELSE row[d]]
    /\ UNCHANGED <<catalog, disp, work, inserts, lost, faults, ops>>

Join(p) ==
    /\ p \notin catalog
    /\ catalog' = catalog \cup {p}
    /\ UNCHANGED <<event, row, disp, work, inserts, lost, faults, ops>>
-----------------------------------------------------------------------------
(* The dispatcher's tick: dispatch, a wake slice, late-join *)

StartTick(x) ==
    /\ disp[x].pc = "top"
    /\ disp' = [disp EXCEPT ![x] = [@ EXCEPT !.pc = "dispatch", !.catalog = catalog]]
    /\ UNCHANGED <<event, row, catalog, work, inserts, lost, faults, ops>>

Undispatched == {e \in Events : event[e].state = "pending"}
Oldest(S) == CHOOSE e \in S : \A f \in S : event[e].at <= event[f].at

\* The first dispatch of an event freezes its subscribers for every later one.
SnapshotOf(e, subscribers) ==
    IF event[e].snapshot = NoSnapshot THEN subscribers ELSE event[e].snapshot

\* dispatch_event_deliveries up to its first page.
BeginDispatch(x, e, subscribers, pc) ==
    /\ event' = [event EXCEPT ![e].snapshot = SnapshotOf(e, subscribers)]
    /\ disp' = [disp EXCEPT ![x] = [@ EXCEPT !.pc = pc, !.event = e,
                                             !.todo = SnapshotOf(e, subscribers)]]

DispatchNext(x) ==
    /\ disp[x].pc = "dispatch" /\ Undispatched # {}
    /\ BeginDispatch(x, Oldest(Undispatched), disp[x].catalog, "page")
    /\ UNCHANGED <<row, catalog, work, inserts, lost, faults, ops>>

\* A read that finds nothing to dispatch is not a step of its own.
DispatchDone(x) == \/ disp[x].pc = "wake"
                   \/ disp[x].pc = "dispatch" /\ Undispatched = {}

\* INSERT OR IGNORE
Insert(d) ==
    IF row[d].state = "absent"
    THEN /\ row' = [row EXCEPT ![d] = [@ EXCEPT !.state = "pending", !.created = inserts + 1]]
         /\ inserts' = inserts + 1
    ELSE UNCHANGED <<row, inserts>>

\* One page is one subscriber; the last page marks the event dispatched.
DispatchPage(x) ==
    LET e == disp[x].event IN
    /\ disp[x].pc \in {"page", "latepage"}
    /\ \E page \in IF disp[x].todo = {} THEN {{}} ELSE {{p} : p \in disp[x].todo} :
        /\ IF page = {} THEN UNCHANGED <<row, inserts>> ELSE \A p \in page : Insert(<<e, p>>)
        /\ IF page = disp[x].todo
           THEN /\ event' = [event EXCEPT ![e].state = "dispatched"]
                /\ disp' = [disp EXCEPT ![x] = IF @.pc = "page"
                                THEN [@ EXCEPT !.pc = "dispatch", !.todo = {}, !.event = None]
                                ELSE NewTick]
           ELSE /\ disp' = [disp EXCEPT ![x].todo = @ \ page]
                /\ UNCHANGED event
    /\ UNCHANGED <<catalog, work, faults, lost, ops>>

Wakeable == {e \in Events : /\ event[e].wake /\ event[e].lease # "live"
                            /\ event[e].claims < MaxSlices}

\* process_pending_wakes: the lease of a slice carries a fresh token.
ClaimWake(x, e) ==
    /\ DispatchDone(x) /\ e \in Wakeable
    /\ event' = [event EXCEPT ![e] = [@ EXCEPT !.lease = "live", !.token = event[e].claims + 1,
                                               !.claims = event[e].claims + 1]]
    /\ disp' = [disp EXCEPT ![x] = [@ EXCEPT !.pc = "scan", !.event = e, !.catalog = {},
                                             !.token = event[e].claims + 1]]
    /\ UNCHANGED <<row, catalog, work, inserts, lost, faults, ops>>

\* Rows parked on e's type after the cursor, in created_at order.
Sleepers(e) == {d \in Deliveries : /\ Parked(d) /\ e \in WakeEvents /\ d[1] # e
                                   /\ row[d].created > event[e].cursor}
FirstOf(S) == {d \in S : Cardinality({c \in S : row[c].created < row[d].created}) < WakePage}

ScanWakePage(x) ==
    LET page == FirstOf(Sleepers(disp[x].event)) IN
    /\ disp[x].pc = "scan"
    /\ disp' = [disp EXCEPT ![x] = [@ EXCEPT !.pc = IF page = {} THEN "end" ELSE "update",
                                             !.ids = page, !.last = Cardinality(page) < WakePage,
                                             !.upto = IF page = {} THEN 0
                                                      ELSE CHOOSE n \in {row[d].created : d \in page} :
                                                              \A d \in page : row[d].created <= n]]
    /\ UNCHANGED <<event, row, catalog, work, inserts, lost, faults, ops>>

\* wake_pending = 1 AND wake_lease_owner = token
HoldsToken(x) == LET e == disp[x].event IN event[e].wake /\ event[e].token = disp[x].token

\* wake_fenced_update_sql: the rows need only still be pending.
WakeSleepers(x) ==
    /\ disp[x].pc = "update"
    /\ row' = [d \in Deliveries |->
                IF HoldsToken(x) /\ d \in disp[x].ids /\ row[d].state = "pending"
                THEN [row[d] EXCEPT !.ready = "now", !.resume = TRUE, !.wake = FALSE,
                                    !.owed = {}]
                ELSE row[d]]
    /\ disp' = [disp EXCEPT ![x] = [@ EXCEPT !.pc = "end", !.ids = {}]]
    /\ UNCHANGED <<event, catalog, work, inserts, lost, faults, ops>>

\* Faulty: finish and release do not look at the token.
EndWakeUnfenced(x) ==
    LET e == disp[x].event IN
    /\ disp[x].pc = "end"
    /\ event' = [event EXCEPT ![e] = [@ EXCEPT !.wake = ~disp[x].last, !.token = 0, !.lease = "none",
                                               !.cursor = IF disp[x].last THEN 0 ELSE disp[x].upto]]
    /\ disp' = [disp EXCEPT ![x] = [NewTick EXCEPT !.pc = "wake"]]
    /\ UNCHANGED <<row, catalog, work, inserts, lost, faults, ops>>

\* finish_wake_on after a short page, release_wake_cursor_on after a full one.
EndWake(x) ==
    LET e == disp[x].event IN
    /\ disp[x].pc = "end"
    /\ event' = IF HoldsToken(x)
                THEN [event EXCEPT ![e] =
                         [@ EXCEPT !.wake = ~disp[x].last, !.token = 0, !.lease = "none",
                                   !.cursor = IF disp[x].last THEN 0 ELSE disp[x].upto]]
                ELSE event
    /\ disp' = [disp EXCEPT ![x] = [NewTick EXCEPT !.pc = "wake"]]
    /\ UNCHANGED <<row, catalog, work, inserts, lost, faults, ops>>

\* Dispatched events a live plugin has no row for.
MissingPairs == {d \in Deliveries : /\ d[2] \in catalog /\ event[d[1]].state = "dispatched"
                                    /\ row[d].state = "absent"}

\* Every event that had something to wake has had its slice, or more than one.
WakesDone(x) == disp[x].pc = "wake" \/ (DispatchDone(x) /\ Wakeable = {})

\* reconcile_catalog_deliveries hands the one late subscriber to the same dispatch.
Reconcile(x) ==
    /\ WakesDone(x)
    /\ \E d \in MissingPairs : BeginDispatch(x, d[1], {d[2]}, "latepage")
    /\ UNCHANGED <<row, catalog, work, inserts, lost, faults, ops>>

EndTick(x) ==
    /\ WakesDone(x) /\ MissingPairs = {}
    /\ disp' = [disp EXCEPT ![x] = NewTick]
    /\ UNCHANGED <<event, row, catalog, work, inserts, lost, faults, ops>>

\* A statement fails or the process stops: the tick ends where it is.
AbortTick(x) ==
    /\ disp[x].pc # "top" /\ faults < MaxFaults
    /\ disp' = [disp EXCEPT ![x] = NewTick]
    /\ faults' = faults + 1
    /\ UNCHANGED <<event, row, catalog, work, inserts, lost, ops>>

WakeLeaseExpires(e) ==
    /\ event[e].lease = "live"
    /\ event' = [event EXCEPT ![e].lease = "past"]
    /\ UNCHANGED <<row, catalog, disp, work, inserts, lost, faults, ops>>
-----------------------------------------------------------------------------
(* The delivery worker: reclaim, claim, run *)

Expired(d) == row[d].state = "running" /\ row[d].lease # "live"

\* Faulty: the owner is cleared to a value that is not the column's null.
LeftWrongNull(r, state) == [r EXCEPT !.state = state, !.owner = None, !.lease = "none"]

\* Leaving running clears owner and lease in the same statement.
Left(r, state) == [r EXCEPT !.state = state, !.owner = Nobody, !.lease = "none"]

\* Faulty: a checkpointed row that expired is claimed as a new attempt.
ReclaimedForgetful(r) == [Left(r, "pending") EXCEPT !.from = "expiry", !.expired = @ + 1]

\* Back to pending, whatever attempt_count is.
Reclaimed(r) == [Left(r, "pending") EXCEPT !.from = "expiry", !.expired = @ + 1,
                                           !.resume = @ \/ r.checkpoint]

\* reclaim_expired_event_deliveries is two statements: one rejects the flagged rows,
\* the next returns the others to pending, with them those flagged in between.
ReclaimExpired(w) ==
    /\ work[w].pc = "top"
    /\ \E flaggedLate \in SUBSET {d \in Deliveries : Expired(d) /\ row[d].cancel} :
        row' = [d \in Deliveries |->
                  CASE ~Expired(d) -> row[d]
                    [] Expired(d) /\ row[d].cancel /\ d \notin flaggedLate ->
                         [Left(row[d], "rejected") EXCEPT !.cancel = FALSE]
                    [] OTHER -> Reclaimed(row[d])]
    /\ work' = [work EXCEPT ![w].pc = "find"]
    /\ UNCHANGED <<event, catalog, disp, inserts, lost, faults, ops>>

\* Faulty: no earlier delivery of the key holds a later one back.
NeverBlocked(d) == FALSE

\* fifo_blocked: an earlier delivery of the same plugin and key is not finished.
FifoBlocked(d) == \E c \in Deliveries :
    /\ c[2] = d[2] /\ KeyOf[c[1]] = KeyOf[d[1]]
    /\ row[c].created < row[d].created /\ row[c].state \in {"pending", "running"}

\* Pending rows whose time has come, of plugins this node subscribes.
Eligible == {d \in Deliveries : /\ row[d].state = "pending" /\ row[d].ready = "now"
                                /\ d[2] \in catalog}

ListCandidates(w) ==
    /\ work[w].pc = "find"
    /\ work' = [work EXCEPT ![w] = IF Eligible = {} THEN Idle
                                   ELSE [Idle EXCEPT !.pc = "try", !.page = Eligible]]
    /\ UNCHANGED <<event, row, catalog, disp, inserts, lost, faults, ops>>

\* The oldest row of the list that its key does not hold back; the list may be stale.
FindCandidate(w) ==
    LET free == {d \in work[w].page : ~FifoBlocked(d)} IN
    /\ work[w].pc = "try"
    /\ \E d \in free :
        /\ \A c \in free : row[d].created <= row[c].created
        /\ work' = [work EXCEPT ![w] = [@ EXCEPT !.pc = "cas", !.job = d,
                                !.page = {c \in work[w].page : row[c].created > row[d].created}]]
    /\ UNCHANGED <<event, row, catalog, disp, inserts, lost, faults, ops>>

NoCandidate(w) ==
    /\ work[w].pc = "try" /\ \A d \in work[w].page : FifoBlocked(d)
    /\ work' = [work EXCEPT ![w] = Idle]
    /\ UNCHANGED <<event, row, catalog, disp, inserts, lost, faults, ops>>

\* Faulty: the plan does not count the plugin's running rows.
ClaimableUncounted(d) == row[d].state = "pending"

\* plan_claim_event_delivery_cas: neither run_after nor the key is looked at again.
Claimable(d) == row[d].state = "pending" /\ Cardinality(Running(d[2])) < MaxInFlight

Claimed(r, w) ==
    [r EXCEPT !.state = "running", !.owner = w, !.lease = "live", !.gen = @ + 1,
              !.attempt = IF r.resume THEN (IF @ = 0 THEN 1 ELSE @) ELSE @ + 1,
              !.resume = FALSE, !.owed = {}]

Claim(w) ==
    LET d == work[w].job IN
    /\ work[w].pc = "cas" /\ Claimable(d) /\ row[d].gen < MaxClaims[d[1]]
    /\ row' = [row EXCEPT ![d] = Claimed(@, w)]
    /\ work' = [work EXCEPT ![w] = [Idle EXCEPT !.pc = "start", !.job = d,
                                                !.gen = row[d].gen + 1]]
    /\ UNCHANGED <<event, catalog, disp, inserts, lost, faults, ops>>

MissClaim(w) ==
    LET d == work[w].job IN
    /\ work[w].pc = "cas" /\ (~Claimable(d) \/ row[d].gen >= MaxClaims[d[1]])
    /\ work' = [work EXCEPT ![w] = [@ EXCEPT !.pc = "try", !.job = None]]
    /\ UNCHANGED <<event, row, catalog, disp, inserts, lost, faults, ops>>

\* The reply is lost; the replay lists candidates again and does not see the row.
ClaimReplyLost(w) ==
    LET d == work[w].job IN
    /\ work[w].pc = "cas" /\ Claimable(d) /\ row[d].gen < MaxClaims[d[1]] /\ lost < MaxLost
    /\ row' = [row EXCEPT ![d] = Claimed(@, w)]
    /\ work' = [work EXCEPT ![w] = [Idle EXCEPT !.pc = "find"]]
    /\ lost' = lost + 1
    /\ UNCHANGED <<event, catalog, disp, inserts, faults, ops>>

\* Faulty: neither owner nor generation is part of the fence.
RunningIsEnough(w) == row[work[w].job].state = "running"

\* id = ? AND state = 'running' AND lease_owner = ? AND lease_generation = ?
Holds(w) == /\ row[work[w].job].state = "running" /\ row[work[w].job].owner = w
            /\ row[work[w].job].gen = work[w].gen

\* release_unexecuted_event_delivery: the plugin is not loaded here after all.
Released(r) == [Left(r, "pending") EXCEPT
                  !.from = "release",
                  !.resume = IF r.checkpoint THEN TRUE ELSE @,
                  !.attempt = IF r.checkpoint \/ @ = 0 THEN @ ELSE @ - 1]

Release(w) ==
    LET d == work[w].job IN
    /\ work[w].pc = "start"
    /\ row' = IF Holds(w) THEN [row EXCEPT ![d] = Released(@)] ELSE row
    /\ work' = [work EXCEPT ![w] = Idle]
    /\ UNCHANGED <<event, catalog, disp, inserts, lost, faults, ops>>

StartHandler(w) ==
    /\ work[w].pc = "start"
    /\ work' = [work EXCEPT ![w].pc = "run"]
    /\ UNCHANGED <<event, row, catalog, disp, inserts, lost, faults, ops>>

\* The heartbeat task reads the flag of the row, then extends its lease.
SeeCancel(w) ==
    /\ work[w].pc = "run" /\ work[w].stop = "no" /\ row[work[w].job].cancel
    /\ work' = [work EXCEPT ![w].stop = "operator"]
    /\ UNCHANGED <<event, row, catalog, disp, inserts, lost, faults, ops>>

Heartbeat(w) ==
    /\ work[w].pc = "run" /\ work[w].stop = "no"
    /\ IF Holds(w) THEN /\ row' = [row EXCEPT ![work[w].job].lease = "live"]
                        /\ UNCHANGED work
                   ELSE /\ work' = [work EXCEPT ![w].stop = "fence"]
                        /\ UNCHANGED row
    /\ UNCHANGED <<event, catalog, disp, inserts, lost, faults, ops>>

\* Heartbeats failed until the confirmed lease was over.
HeartbeatGivesUp(w) ==
    /\ work[w].pc = "run" /\ work[w].stop = "no"
    /\ row[work[w].job].lease # "live" /\ faults < MaxFaults
    /\ work' = [work EXCEPT ![w].stop = "fence"]
    /\ faults' = faults + 1
    /\ UNCHANGED <<event, row, catalog, disp, inserts, lost, ops>>

\* Faulty: a retry is queued without a look at max_attempts.
RetriedForever(r) == [Left(r, "pending") EXCEPT !.from = "retry", !.ready = "later"]

\* retry_event_delivery and fail_event_delivery
Retried(r) == IF r.attempt >= MaxAttempts
              THEN Left(r, "dead_letter")
              ELSE [Left(r, "pending") EXCEPT !.from = "retry", !.ready = "later"]

\* suspend_event_delivery
Suspended(r, ready, wake) ==
    [Left(r, "pending") EXCEPT !.from = "suspend", !.resume = TRUE, !.checkpoint = TRUE,
                               !.ready = ready, !.wake = wake, !.owed = {}]

Settled(r, result) ==
    CASE result = "ack"           -> Left(r, "acked")
      [] result = "reject"        -> Left(r, "rejected")
      [] result = "dead_letter"   -> Left(r, "dead_letter")
      [] result = "retry"         -> Retried(r)
      [] result = "suspend_timer" -> Suspended(r, "later", FALSE)
      [] result = "suspend_event" -> Suspended(r, "never", TRUE)
      [] result = "suspend_both"  -> Suspended(r, "later", TRUE)

\* The handler returns: the operator's cancel wins, then the lost fence, then
\* what the handler says.
Return(w, result) ==
    LET d == work[w].job
        said == IF work[w].stop = "operator" THEN "reject" ELSE result
    IN
    /\ work[w].pc = "run"
    /\ row' = IF work[w].stop # "fence" /\ Holds(w)
              THEN [row EXCEPT ![d] = Settled(@, said)] ELSE row
    /\ work' = [work EXCEPT ![w] = Idle]
    /\ UNCHANGED <<event, catalog, disp, inserts, lost, faults, ops>>

\* The worker dies, or the statement that settles the row fails.
WorkerFails(w) ==
    /\ work[w].pc # "top" /\ faults < MaxFaults
    /\ work' = [work EXCEPT ![w] = Idle]
    /\ faults' = faults + 1
    /\ UNCHANGED <<event, row, catalog, disp, inserts, lost, ops>>

LeaseExpires(d) ==
    /\ row[d].state = "running" /\ row[d].lease = "live"
    /\ row' = [row EXCEPT ![d].lease = "past"]
    /\ UNCHANGED <<event, catalog, disp, work, inserts, lost, faults, ops>>

RunAfterComes(d) ==
    /\ row[d].state = "pending" /\ row[d].ready = "later"
    /\ row' = [row EXCEPT ![d].ready = "now"]
    /\ UNCHANGED <<event, catalog, disp, work, inserts, lost, faults, ops>>
-----------------------------------------------------------------------------
(* The operator *)

Request == ops < MaxOps /\ ops' = ops + 1

\* request_event_delivery_cancel: what its successful compare-and-set does.
CancelDelivery(d) ==
    /\ Request /\ row[d].state \in {"pending", "running"}
    /\ row' = [row EXCEPT ![d] = IF @.state = "pending"
                                 THEN [@ EXCEPT !.state = "rejected", !.cancel = FALSE,
                                                !.owed = {}]
                                 ELSE [@ EXCEPT !.cancel = TRUE]]
    /\ UNCHANGED <<event, catalog, disp, work, inserts, lost, faults>>

\* retry_dead_letter_delivery: the cancel flag and the wake registration stay.
RetryDeadLetter(d) ==
    /\ Request /\ row[d].state = "dead_letter"
    /\ row' = [row EXCEPT ![d] = [@ EXCEPT !.state = "pending", !.ready = "now", !.attempt = 0,
                                           !.resume = FALSE, !.checkpoint = FALSE,
                                           !.from = "operator", !.expired = 0, !.revived = TRUE]]
    /\ UNCHANGED <<event, catalog, disp, work, inserts, lost, faults>>

AcknowledgeDeadLetter(d) ==
    /\ Request /\ row[d].state = "dead_letter"
    /\ row' = [row EXCEPT ![d].state = "rejected"]
    /\ UNCHANGED <<event, catalog, disp, work, inserts, lost, faults>>

ResumeDelivery(d) ==
    /\ Request /\ row[d].state = "pending" /\ row[d].checkpoint
    /\ row' = [row EXCEPT ![d] = [@ EXCEPT !.ready = "now", !.resume = TRUE]]
    /\ UNCHANGED <<event, catalog, disp, work, inserts, lost, faults>>
-----------------------------------------------------------------------------
Tick(x) == \/ StartTick(x) \/ DispatchNext(x) \/ DispatchPage(x)
           \/ (\E e \in Events : ClaimWake(x, e))
           \/ ScanWakePage(x) \/ WakeSleepers(x) \/ EndWake(x)
           \/ Reconcile(x) \/ EndTick(x)

Deliver(w) == \/ ReclaimExpired(w) \/ ListCandidates(w) \/ FindCandidate(w) \/ NoCandidate(w)
              \/ Claim(w) \/ MissClaim(w) \/ Release(w) \/ StartHandler(w)
              \/ SeeCancel(w) \/ Heartbeat(w) \/ (\E r \in Outcomes : Return(w, r))

Operator(d) == \/ CancelDelivery(d) \/ RetryDeadLetter(d) \/ AcknowledgeDeadLetter(d)
               \/ ResumeDelivery(d)

Next == \/ \E e \in Events : Publish(e) \/ WakeLeaseExpires(e)
        \/ \E p \in Plugins : Join(p)
        \/ \E x \in Dispatchers : Tick(x) \/ AbortTick(x)
        \/ \E w \in Workers : \/ Deliver(w) \/ ClaimReplyLost(w) \/ HeartbeatGivesUp(w)
                              \/ WorkerFails(w)
        \/ \E d \in Deliveries : LeaseExpires(d) \/ RunAfterComes(d) \/ Operator(d)

Spec == Init /\ [][Next]_vars

\* A dispatcher's loop goes on: its interval ticks and its statements return.
FairTicks == Spec /\ \A x \in Dispatchers : WF_vars(Tick(x))
-----------------------------------------------------------------------------
(* Properties *)

\* Every row, tick and worker has the shape the tables and the loops give it.
TypeOK ==
    /\ event \in [Events -> Event] /\ row \in [Deliveries -> Delivery]
    /\ catalog \subseteq Plugins
    /\ disp \in [Dispatchers -> [pc : {"top", "dispatch", "page", "wake", "scan", "update",
                                       "end", "latepage"},
                                 catalog : SUBSET Plugins, event : Events \cup {None},
                                 todo : SUBSET Plugins, token : Nat,
                                 ids : SUBSET Deliveries, last : BOOLEAN, upto : Nat]]
    /\ work \in [Workers -> [pc : {"top", "find", "try", "cas", "start", "run"},
                             job : Deliveries \cup {None}, gen : Nat,
                             page : SUBSET Deliveries, stop : {"no", "operator", "fence"}]]
    /\ inserts \in Nat /\ faults \in Nat /\ lost \in Nat /\ ops \in Nat

\* However claims, lost replies, expiries and reclaims interleave, a plugin never has
\* more running deliveries than events.concurrency allows in the whole cluster.
InFlightCap == \A p \in Plugins : Cardinality(Running(p)) <= MaxInFlight

\* FIFO per ordering key: although the key is looked at before, and not in, the plan
\* that claims, a delivery starts only when every earlier one of its plugin and key has
\* finished; parked, retried and expired ones hold it back.  The one exception is an
\* earlier delivery that the operator revived from the dead letters.
FifoPerKey == [][\A c, d \in Deliveries :
    (/\ row[d].state = "pending" /\ row'[d].state = "running"
     /\ c[2] = d[2] /\ KeyOf[c[1]] = KeyOf[d[1]] /\ row[c].created < row[d].created)
    => row[c].state \in Finished \cup {"absent"} \/ row[c].revived]_vars

\* Only a lease that ran out takes a delivery past its max_attempts: retries, releases,
\* suspensions and wakes never do, and a running delivery has begun an attempt.
AttemptsAccounted == \A d \in Deliveries :
    /\ row[d].attempt <= MaxAttempts + row[d].expired
    /\ row[d].state = "running" => row[d].attempt >= 1

\* A delivery whose lease is live stops running only on the word of the worker that
\* runs its current generation and was not told that the fence is lost: results of
\* expired leases, late handlers and reclaim passes leave it alone.
SettledByCurrentRun == [][\A d \in Deliveries :
    (row[d].state = "running" /\ row[d].lease = "live" /\ row'[d].state # "running") =>
        \E w \in Workers : /\ work[w].pc \in {"start", "run"} /\ work[w].stop # "fence"
                           /\ work[w].job = d /\ work[w].gen = row[d].gen]_vars

\* A wake is never lost: an event published while a delivery was parked on its type
\* keeps wake_pending until that delivery has been woken, claimed or cancelled, through
\* expired slices, two dispatchers, full pages and aborted ticks.
NoLostWake == \A d \in Deliveries : \A e \in row[d].owed : event[e].wake

\* Resuming costs no attempt: neither after a suspension, nor when the worker of a
\* checkpointed delivery died or gave the claim back.
ResumeCostsNothing == [][\A d \in Deliveries :
    (/\ row[d].state = "pending" /\ row'[d].state = "running"
     /\ \/ row[d].from = "suspend"
        \/ row[d].from \in {"expiry", "release"} /\ row[d].checkpoint)
    => row'[d].attempt = row[d].attempt]_vars

\* Late-join: an event that was dispatched before a plugin subscribed reaches it too.
LateJoinDelivered == \A e \in Events, p \in Plugins :
    (event[e].state = "dispatched" /\ p \in catalog) ~> row[<<e, p>>].state # "absent"
-----------------------------------------------------------------------------
(* The inductive invariant *)

Inserted == {d \in Deliveries : row[d].state # "absent"}

\* Only a resumed or expired delivery may use up its attempts while it waits; a
\* row that waits after a suspension, or that lost its worker with a checkpoint,
\* resumes; and only a parked row is owed a wake.
RowKept(r) ==
    /\ r.state = "absent" => r = NoDelivery
    /\ r.attempt <= MaxAttempts + r.expired
    /\ r.state = "running" => r.attempt >= 1
    /\ r.state = "pending" /\ ~r.resume => r.attempt < MaxAttempts + r.expired
    /\ (/\ r.state = "pending"
        /\ r.from = "suspend" \/ (r.from \in {"expiry", "release"} /\ r.checkpoint))
       => r.resume /\ r.attempt >= 1
    /\ r.owed # {} => r.state = "pending" /\ r.wake

RowsKept ==
    \A d \in Deliveries :
        /\ RowKept(row[d])
        /\ row[d].state # "absent" => row[d].created \in 1..inserts /\ d[1] \in Published

TablesFinite == IsFiniteSet(Inserted) /\ IsFiniteSet(Published)

\* What fifo_blocked found stays true until the claim: a later insert has a later
\* created_at, and a finished delivery comes back only by the operator's hand.
NotHeldBack(d) ==
    \A c \in Deliveries :
        (c[2] = d[2] /\ KeyOf[c[1]] = KeyOf[d[1]] /\ row[c].created < row[d].created)
        => row[c].state \in Finished \cup {"absent"} \/ row[c].revived

WorkerKept(w) ==
    /\ work[w].page \subseteq Inserted
    /\ work[w].pc \in {"cas", "start", "run"} => work[w].job \in Inserted
    /\ work[w].pc = "cas" => NotHeldBack(work[w].job)
    /\ work[w].pc = "start" => work[w].stop = "no"

\* An owed wake is ahead of the cursor.
EventKept(e) ==
    /\ event[e].state = "absent" => ~event[e].wake /\ event[e].claims = 0 /\ event[e].cursor = 0
    /\ \A d \in Deliveries : e \in row[d].owed =>
          /\ e \in WakeEvents /\ d[1] # e /\ event[e].wake /\ row[d].created > event[e].cursor

Slicing(x) == disp[x].pc \in {"scan", "update", "end"}

\* The page of a slice that still holds its token, and what comes after it, hold
\* every delivery that is owed the wake.
TickKept(x) ==
    LET e == disp[x].event IN
    /\ disp[x].pc \in {"page", "latepage"} => e \in Published
    /\ Slicing(x) => e \in Events /\ disp[x].token \in 1..event[e].claims
    /\ disp[x].pc \in {"update", "end"} /\ HoldsToken(x) =>
          \A d \in Deliveries : e \in row[d].owed =>
              \/ disp[x].pc = "update" /\ d \in disp[x].ids
              \/ ~disp[x].last /\ row[d].created > disp[x].upto

TokensDiffer ==
    \A x, y \in Dispatchers :
        Slicing(x) /\ Slicing(y) /\ disp[x].event = disp[y].event /\ disp[x].token = disp[y].token
        => x = y

\* These are inductive and imply the invariants above; with them each step keeps
\* the action properties.
OutInv ==
    /\ TypeOK /\ RowsKept /\ TablesFinite /\ InFlightCap
    /\ \A w \in Workers : WorkerKept(w)
    /\ \A e \in Events : EventKept(e)
    /\ \A x \in Dispatchers : TickKept(x)
    /\ TokensDiffer
=============================================================================
