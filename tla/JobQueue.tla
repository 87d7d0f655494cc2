------------------------------ MODULE JobQueue ------------------------------
(***************************************************************************)
(* The durable job queue of bookclerkd: the `jobs` table and the           *)
(* operations on it (store/job_queue.rs and the atomic plans of            *)
(* sql_plan/named.rs), the leased worker loop (job_worker.rs), and the     *)
(* operator's cancel request.                                              *)
(*                                                                         *)
(* A database statement (or one atomic plan) is one step.  Everything a    *)
(* worker or the operator does between two statements is open to the       *)
(* steps of the others: a row that was read may have changed when the      *)
(* conditional update that was computed from it arrives.                   *)
(*                                                                         *)
(* Time is abstracted to the comparisons the code makes with it: a lease   *)
(* is "live" or "past", a pending row's run_after has come (ready) or not, *)
(* and due[w] holds the rows whose lease_expires_at is still at or before  *)
(* the `now` that worker w's reclaim pass captured.                        *)
(***************************************************************************)
EXTENDS Integers, FiniteSets

CONSTANTS
    Jobs,          \* job ids; every insert draws a fresh one
    KeyOf,         \* the dedup key of the command that draws the id
    CopyJobs,      \* ids of plugin_copy commands (the kind that may suspend)
    Workers,       \* leased workers of all replicas; a worker is its lease_owner
    NoJob,         \* "no row claimed"
    NoOwner,       \* lease_owner IS NULL
    Backend,       \* "plan": atomic guest plans; "local": in-process transaction
    MaxAttempts,   \* jobs.max_attempts
    MaxPending,    \* jobs.max_pending
    ClaimLimit,    \* candidates the local claim loads (8 in the code)
    CancelTries,   \* compare-and-set rounds of request_job_cancel (16)
    MaxSuspends,   \* bound: generations in which a job may still suspend
    MaxLate,       \* bound: abandoned statements in flight
    MaxCrashes     \* bound: worker crashes

ASSUME BackendAssumption == Backend \in {"plan", "local"}
ASSUME IdAssumption == NoJob \notin Jobs /\ NoOwner \notin Workers
ASSUME FiniteJobs == IsFiniteSet(Jobs) /\ CopyJobs \subseteq Jobs
ASSUME LimitAssumption ==
    /\ MaxAttempts \in Nat \ {0} /\ MaxPending \in Nat
    /\ ClaimLimit \in Nat \ {0} /\ CancelTries \in Nat \ {0}
    /\ MaxSuspends \in Nat /\ MaxLate \in Nat /\ MaxCrashes \in Nat

VARIABLES
    row,        \* the jobs table
    pc,         \* where each worker is in its loop
    fence,      \* (job, generation) of the worker's claim, or NoFence
    stop,       \* JobExecCtx.cancel of the running handler
    hb,         \* the heartbeat task of the running handler
    seen,       \* row snapshots the worker read and will act on
    due,        \* rows whose lease is not after the worker's captured now
    late,       \* fenced updates whose caller gave up waiting
    lateClaims, \* owners with an abandoned claim request in flight
    op,         \* the operator's cancel request
    crashes     \* crashes so far (bounded)

queueVars == <<row, due, late, lateClaims>>
workerVars == <<pc, fence, stop, hb, seen>>
vars == <<row, pc, fence, stop, hb, seen, due, late, lateClaims, op, crashes>>
-----------------------------------------------------------------------------
(* Rows, fences and snapshots. *)

Active == {"pending", "running"}
Terminal == {"succeeded", "failed", "cancelled"}
States == {"absent", "pruned"} \cup Active \cup Terminal

\* The last two fields are history: what the handler of the row's generation has
\* returned, and whether its worker has let go of the row.
Row == [state : States, attempt : Nat, gen : Nat, owner : Workers \cup {NoOwner},
        lease : {"none", "live", "past"}, cancel : BOOLEAN, resume : BOOLEAN,
        ready : BOOLEAN, said : {"no", "ok", "unfenced", "err"}, left : BOOLEAN]

NoRow == [state |-> "absent", attempt |-> 0, gen |-> 0, owner |-> NoOwner,
          lease |-> "none", cancel |-> FALSE, resume |-> FALSE, ready |-> FALSE,
          said |-> "no", left |-> FALSE]

Fence == [job : Jobs, gen : Nat]
NoFence == [job |-> NoJob, gen |-> 0]

\* What fail_job and reclaim_expired_leases keep of the row they read.
Snapshot == [job : Jobs, owner : Workers \cup {NoOwner}, gen : Nat,
             cancel : BOOLEAN, final : BOOLEAN]

SnapshotOf(j) == [job |-> j, owner |-> row[j].owner, gen |-> row[j].gen,
                  cancel |-> row[j].cancel, final |-> row[j].attempt >= MaxAttempts]

\* A fenced update in flight: the fence it is conditional on and what it writes.
Outcome == {"renew", "suspended", "pending", "succeeded", "failed", "cancelled"}
Update == [job : Jobs, owner : Workers \cup {NoOwner}, gen : Nat, to : Outcome]

UpdateOf(w, to) == [job |-> fence[w].job, owner |-> w, gen |-> fence[w].gen, to |-> to]

\* Faulty: the update is not conditional on the generation.
FenceWithoutGeneration(u) == row[u.job].state = "running" /\ row[u.job].owner = u.owner

\* WHERE id = ? AND state = 'running' AND lease_owner = ? AND lease_generation = ?
FenceHolds(u) == /\ row[u.job].state = "running"
                 /\ row[u.job].owner = u.owner
                 /\ row[u.job].gen = u.gen

Holds(w) == FenceHolds(UpdateOf(w, "renew"))

\* A row that leaves running loses owner and lease in the same statement.
Released(r, state) == [r EXCEPT !.state = state, !.owner = NoOwner, !.lease = "none",
                                !.said = "no", !.left = FALSE]

Written(r, to) ==
    CASE to = "renew"     -> [r EXCEPT !.lease = "live"]
      [] to = "suspended" -> [Released(r, "pending") EXCEPT !.resume = TRUE, !.ready = FALSE]
      [] to = "pending"   -> [Released(r, "pending") EXCEPT !.resume = FALSE, !.ready = FALSE]
      [] to = "cancelled" -> [Released(r, "cancelled") EXCEPT !.cancel = TRUE]
      [] OTHER            -> Released(r, to)

\* Rows affected: one when the fence holds, none otherwise.
ApplyUpdate(u) ==
    /\ row' = IF FenceHolds(u) THEN [row EXCEPT ![u.job] = Written(@, u.to)] ELSE row
    /\ due' = IF FenceHolds(u) /\ u.to = "renew"
              THEN [w \in Workers |-> due[w] \ {u.job}] ELSE due

\* The caller stops waiting; the statement may still reach the database.
InFlight == Cardinality(late) + Cardinality(lateClaims)

Abandon(u) == /\ InFlight < MaxLate
              /\ late' = late \cup {u}

NoRequest == [pc |-> "idle", job |-> NoJob, running |-> FALSE, tries |-> 0]

ActiveJobs == {j \in Jobs : row[j].state \in Active}

\* plan_enqueue_job gives every plugin_copy command one dedup key.
SameKey(i, j) == \/ KeyOf[i] = KeyOf[j]
                 \/ Backend = "plan" /\ {i, j} \subseteq CopyJobs
-----------------------------------------------------------------------------
Init ==
    /\ row = [j \in Jobs |-> NoRow]
    /\ pc = [w \in Workers |-> "top"]
    /\ fence = [w \in Workers |-> NoFence]
    /\ stop = [w \in Workers |-> FALSE]
    /\ hb = [w \in Workers |-> "off"]
    /\ seen = [w \in Workers |-> {}]
    /\ due = [w \in Workers |-> {}]
    /\ late = {} /\ lateClaims = {}
    /\ op = NoRequest
    /\ crashes = 0
-----------------------------------------------------------------------------
(* Admission.  A duplicate key or a full queue leaves the table alone. *)

\* Faulty: the insert does not look for the dedup key.
EnqueueWithoutDedup(j) ==
    /\ row[j].state = "absent"
    /\ Cardinality(ActiveJobs) < MaxPending
    /\ row' = [row EXCEPT ![j] = [@ EXCEPT !.state = "pending", !.ready = TRUE]]
    /\ UNCHANGED <<due, late, lateClaims, workerVars, op, crashes>>

\* Faulty: the cap is off by one.
EnqueueOverCap(j) ==
    /\ row[j].state = "absent"
    /\ \A i \in ActiveJobs : ~SameKey(i, j)
    /\ Cardinality(ActiveJobs) <= MaxPending
    /\ row' = [row EXCEPT ![j] = [@ EXCEPT !.state = "pending", !.ready = TRUE]]
    /\ UNCHANGED <<due, late, lateClaims, workerVars, op, crashes>>

EnqueueJob(j) ==
    /\ row[j].state = "absent"
    /\ \A i \in ActiveJobs : ~SameKey(i, j)
    /\ Cardinality(ActiveJobs) < MaxPending
    /\ row' = [row EXCEPT ![j] = [@ EXCEPT !.state = "pending", !.ready = TRUE]]
    /\ UNCHANGED <<due, late, lateClaims, workerVars, op, crashes>>

(* Time. *)

RunAfterPasses(j) ==
    /\ row[j].state = "pending" /\ ~row[j].ready
    /\ row' = [row EXCEPT ![j].ready = TRUE]
    /\ UNCHANGED <<due, late, lateClaims, workerVars, op, crashes>>

LeaseLapses(j) ==
    /\ row[j].state = "running" /\ row[j].lease = "live"
    /\ row' = [row EXCEPT ![j].lease = "past"]
    /\ UNCHANGED <<due, late, lateClaims, workerVars, op, crashes>>
-----------------------------------------------------------------------------
(* The worker loop: reclaim, prune, claim, run. *)

\* Faulty: only rows without a lease count as expired.
ReclaimReadNullOnly(w) ==
    LET expired == {j \in Jobs : row[j].state = "running" /\ row[j].lease = "none"}
    IN  /\ pc[w] = "top"
        /\ pc' = [pc EXCEPT ![w] = "reclaim"]
        /\ seen' = [seen EXCEPT ![w] = {SnapshotOf(j) : j \in expired}]
        /\ due' = [due EXCEPT ![w] = expired]
        /\ UNCHANGED <<row, fence, stop, hb, late, lateClaims, op, crashes>>

\* reclaim_expired_leases captures now and reads the running rows.
ReclaimRead(w) ==
    LET expired == {j \in Jobs : row[j].state = "running" /\ row[j].lease # "live"}
    IN  /\ pc[w] = "top"
        /\ pc' = [pc EXCEPT ![w] = "reclaim"]
        /\ seen' = [seen EXCEPT ![w] = {SnapshotOf(j) : j \in expired}]
        /\ due' = [due EXCEPT ![w] = expired]
        /\ UNCHANGED <<row, fence, stop, hb, late, lateClaims, op, crashes>>

\* Faulty: reclaim writes a state that is not one of JobState.
ReclaimToExpired(s) == IF s.cancel THEN "cancelled" ELSE IF s.final THEN "expired" ELSE "pending"

\* The state reclaim writes, computed from the snapshot.
ReclaimTo(s) == IF s.cancel THEN "cancelled" ELSE IF s.final THEN "failed" ELSE "pending"

\* Faulty: the update does not repeat the lease test of the read.
ReclaimWithoutLeaseTest(w, s) == /\ row[s.job].state = "running"
                                 /\ row[s.job].gen = s.gen
                                 /\ s.cancel => row[s.job].owner = s.owner

\* Reclaim requires the same generation and a lease that is still not after
\* the captured now; the cancelled branch also names the owner.
ReclaimHolds(w, s) == /\ row[s.job].state = "running"
                      /\ row[s.job].gen = s.gen
                      /\ s.cancel => row[s.job].owner = s.owner
                      /\ s.job \in due[w]

\* run_after becomes now, so a reclaimed row is ready; resume_pending is kept.
Reclaimed(r, to) == [Released(r, to) EXCEPT !.ready = TRUE,
                                            !.cancel = @ \/ to = "cancelled"]

ReclaimRow(w) ==
    /\ pc[w] = "reclaim"
    /\ \E s \in seen[w] :
        /\ seen' = [seen EXCEPT ![w] = @ \ {s}]
        /\ row' = IF ReclaimHolds(w, s)
                  THEN [row EXCEPT ![s.job] = Reclaimed(@, ReclaimTo(s))] ELSE row
    /\ UNCHANGED <<pc, fence, stop, hb, due, late, lateClaims, op, crashes>>

\* A failed statement ends the pass; the worker logs it and carries on.
ReclaimFails(w) ==
    /\ pc[w] = "reclaim" /\ seen[w] # {}
    /\ seen' = [seen EXCEPT ![w] = {}]
    /\ UNCHANGED <<queueVars, pc, fence, stop, hb, op, crashes>>

\* prune_terminal_jobs deletes the terminal rows past retention.
PruneTerminalJobs(w) ==
    /\ pc[w] = "reclaim" /\ seen[w] = {}
    /\ pc' = [pc EXCEPT ![w] = "claim"]
    /\ due' = [due EXCEPT ![w] = {}]
    /\ \E old \in SUBSET {j \in Jobs : row[j].state \in Terminal} :
        row' = [j \in Jobs |-> IF j \in old THEN [NoRow EXCEPT !.state = "pruned"] ELSE row[j]]
    /\ UNCHANGED <<fence, stop, hb, seen, late, lateClaims, op, crashes>>
-----------------------------------------------------------------------------
(* Claim: one transaction under the job-queue slot lock. *)

Due == {j \in Jobs : row[j].state = "pending" /\ row[j].ready}

\* Faulty: a resumed job is charged an attempt.
ClaimedLocalChargesResume(r, w, left) ==
    [r EXCEPT !.state = "running", !.owner = w, !.lease = "live", !.gen = @ + 1,
              !.attempt = @ + 1, !.resume = FALSE, !.left = left]

\* The local claim resumes a suspended job on its old attempt.
ClaimedLocal(r, w, left) ==
    [r EXCEPT !.state = "running", !.owner = w, !.lease = "live", !.gen = @ + 1,
              !.attempt = IF ~r.resume THEN @ + 1 ELSE IF @ = 0 THEN 1 ELSE @,
              !.resume = FALSE, !.left = left]

\* The plan counts every claim and leaves the payload alone.
ClaimedPlan(r, w, left) ==
    [r EXCEPT !.state = "running", !.owner = w, !.lease = "live", !.gen = @ + 1,
              !.attempt = @ + 1, !.left = left]

\* Faulty: flagged rows are skipped and stay pending.
ClaimLocalSkipsFlagged(w, j, left) ==
    LET ready == {i \in Due : ~row[i].cancel}
    IN  /\ j \in ready \/ (j = NoJob /\ ready = {})
        /\ row' = [i \in Jobs |-> IF i = j THEN ClaimedLocal(row[i], w, left) ELSE row[i]]

\* claim_next_job_on: walk the candidates in order, cancelling flagged rows,
\* until one is claimed.  Any set of ClaimLimit due rows can be the ones with
\* the highest priority.
ClaimLocal(w, j, left) ==
    \E cand \in SUBSET Due :
        LET flagged == {i \in cand : row[i].cancel}
        IN  /\ cand = Due \/ Cardinality(cand) = ClaimLimit
            /\ Cardinality(cand) <= ClaimLimit
            /\ \E passed \in SUBSET flagged :
                /\ \/ j \in cand \ flagged
                   \/ j = NoJob /\ cand = flagged /\ passed = flagged
                /\ row' = [i \in Jobs |->
                             IF i \in passed THEN [row[i] EXCEPT !.state = "cancelled"]
                             ELSE IF i = j THEN ClaimedLocal(row[i], w, left) ELSE row[i]]

\* Faulty: the plan does not filter on cancel_requested.
ClaimPlanIgnoresFlag(w, j, left) ==
    LET unknown == {i \in CopyJobs : row[i].state = "pending"}
        ready == Due \ unknown
    IN  /\ j \in ready \/ (j = NoJob /\ ready = {})
        /\ row' = [i \in Jobs |->
                     IF i \in unknown THEN Released(row[i], "failed")
                     ELSE IF i = j THEN ClaimedPlan(row[i], w, left) ELSE row[i]]

\* plan_claim_next_job: pending rows of a kind the plan does not list are
\* marked failed, then the best unflagged row is claimed; flagged rows stay.
ClaimPlan(w, j, left) ==
    LET unknown == {i \in CopyJobs : row[i].state = "pending"}
        ready == {i \in Due \ unknown : ~row[i].cancel}
    IN  /\ j \in ready \/ (j = NoJob /\ ready = {})
        /\ row' = [i \in Jobs |->
                     IF i \in unknown THEN Released(row[i], "failed")
                     ELSE IF i = j THEN ClaimedPlan(row[i], w, left) ELSE row[i]]

ClaimNextJob(w, j, left) ==
    /\ \/ Backend = "local" /\ ClaimLocal(w, j, left)
       \/ Backend = "plan" /\ ClaimPlan(w, j, left)
    /\ due' = [v \in Workers |-> due[v] \ {j}]

FenceOf(j) == IF j = NoJob THEN NoFence ELSE [job |-> j, gen |-> row[j].gen + 1]

\* Faulty: a replay of the operation id runs the claim again.
ClaimRunsOnReplay(w) ==
    /\ pc[w] \in {"claim", "claimed"}
    /\ pc' = [pc EXCEPT ![w] = "claimed"]
    /\ \E j \in Jobs \cup {NoJob} :
        /\ ClaimNextJob(w, j, FALSE)
        /\ fence' = [fence EXCEPT ![w] = FenceOf(j)]
    /\ UNCHANGED <<stop, hb, seen, late, lateClaims, op, crashes>>

\* The claim runs once per operation id and leaves its result as the receipt.
ClaimRuns(w) ==
    /\ pc[w] = "claim"
    /\ pc' = [pc EXCEPT ![w] = "claimed"]
    /\ \E j \in Jobs \cup {NoJob} :
        /\ ClaimNextJob(w, j, FALSE)
        /\ fence' = [fence EXCEPT ![w] = FenceOf(j)]
    /\ UNCHANGED <<stop, hb, seen, late, lateClaims, op, crashes>>

\* The reply arrives, at once or by replaying the operation id: the handler
\* and its heartbeat task start, or the worker idles until the next round.
ClaimReplies(w) ==
    /\ pc[w] = "claimed"
    /\ pc' = [pc EXCEPT ![w] = IF fence[w] = NoFence THEN "top" ELSE "run"]
    /\ hb' = [hb EXCEPT ![w] = IF fence[w] = NoFence THEN "off" ELSE "sure"]
    /\ UNCHANGED <<queueVars, fence, stop, seen, op, crashes>>

\* History: the row the worker still holds is no longer followed by anyone.
LetGo(w) == row' = IF fence[w] # NoFence /\ Holds(w)
                   THEN [row EXCEPT ![fence[w].job].left = TRUE] ELSE row

\* Back to the top of the loop.
Leave(w) == /\ pc' = [pc EXCEPT ![w] = "top"]
            /\ fence' = [fence EXCEPT ![w] = NoFence]
            /\ stop' = [stop EXCEPT ![w] = FALSE]
            /\ hb' = [hb EXCEPT ![w] = "off"]
            /\ seen' = [seen EXCEPT ![w] = {}]

\* CLAIM_REPLAY_BUDGET is exhausted: the claim ran and its reply is lost, or
\* it has not run and may still do so.
ClaimGivesUp(w) ==
    /\ \/ pc[w] = "claimed" /\ UNCHANGED lateClaims
       \/ pc[w] = "claim" /\ UNCHANGED lateClaims
       \/ pc[w] = "claim" /\ InFlight < MaxLate /\ lateClaims' = lateClaims \cup {w}
    /\ Leave(w)
    /\ LetGo(w)
    /\ UNCHANGED <<due, late, op, crashes>>

\* An abandoned claim reaches the database after all: nobody runs the row.
ClaimArrivesLate(w) ==
    /\ w \in lateClaims
    /\ lateClaims' = lateClaims \ {w}
    /\ \E j \in Jobs \cup {NoJob} : ClaimNextJob(w, j, TRUE)
    /\ UNCHANGED <<late, workerVars, op, crashes>>
-----------------------------------------------------------------------------
(* While the handler runs. *)

\* job_cancel_requested reads the flag by id; the read may fail.
SeesCancel(w, ok) == ok /\ row[fence[w].job].cancel

\* A heartbeat tick that the database answers.
HeartbeatAnswered(w) ==
    /\ pc[w] = "run" /\ hb[w] \in {"sure", "unsure"}
    /\ \E ok \in BOOLEAN :
        stop' = [stop EXCEPT ![w] = @ \/ SeesCancel(w, ok) \/ ~Holds(w)]
    /\ hb' = [hb EXCEPT ![w] = IF Holds(w) THEN "sure" ELSE "lost"]
    /\ ApplyUpdate(UpdateOf(w, "renew"))
    /\ UNCHANGED <<pc, fence, seen, late, lateClaims, op, crashes>>

\* A tick that ends in an error: the renewal may still arrive, and the worker
\* no longer knows the row's lease.
HeartbeatErrs(w) ==
    /\ pc[w] = "run" /\ hb[w] \in {"sure", "unsure"}
    /\ \E ok \in BOOLEAN : stop' = [stop EXCEPT ![w] = @ \/ SeesCancel(w, ok)]
    /\ Abandon(UpdateOf(w, "renew"))
    /\ hb' = [hb EXCEPT ![w] = "unsure"]
    /\ UNCHANGED <<row, due, pc, fence, seen, lateClaims, op, crashes>>

\* A tick that errs past the last confirmed expiry.  That expiry is not before
\* the row's lease, unless the row was renewed without the worker knowing.
HeartbeatDeadline(w) ==
    /\ pc[w] = "run" /\ hb[w] \in {"sure", "unsure"}
    /\ hb[w] = "unsure" \/ ~Holds(w) \/ row[fence[w].job].lease = "past"
    /\ hb' = [hb EXCEPT ![w] = "lost"]
    /\ stop' = [stop EXCEPT ![w] = TRUE]
    /\ UNCHANGED <<queueVars, pc, fence, seen, op, crashes>>

\* History: the handler of the row's current generation has returned.
Return(w, what) == row' = IF Holds(w) THEN [row EXCEPT ![fence[w].job].said = what] ELSE row

\* The handler returns Ok; the heartbeat task is aborted.
HandlerOk(w) ==
    /\ pc[w] = "run"
    /\ pc' = [pc EXCEPT ![w] = "complete"]
    /\ hb' = [hb EXCEPT ![w] = "off"]
    /\ Return(w, IF hb[w] = "lost" THEN "unfenced" ELSE "ok")
    /\ UNCHANGED <<due, late, lateClaims, fence, stop, seen, op, crashes>>

HandlerErr(w) ==
    /\ pc[w] = "run"
    /\ pc' = [pc EXCEPT ![w] = "failing"]
    /\ hb' = [hb EXCEPT ![w] = "off"]
    /\ Return(w, "err")
    /\ UNCHANGED <<due, late, lateClaims, fence, stop, seen, op, crashes>>

\* suspend_job, called by a plugin_copy handler whose guest suspended.  Its
\* first read repeats the fence of the update, so the two are one step.
SuspendJob(w) ==
    /\ pc[w] = "run" /\ fence[w].job \in CopyJobs /\ fence[w].gen <= MaxSuspends
    /\ Holds(w)
    /\ ApplyUpdate(UpdateOf(w, "suspended"))
    /\ Leave(w)
    /\ UNCHANGED <<late, lateClaims, op, crashes>>

\* The suspend errs or finds the fence lost: the handler returns Err.
SuspendFails(w) ==
    /\ pc[w] = "run" /\ fence[w].job \in CopyJobs /\ fence[w].gen <= MaxSuspends
    /\ IF Holds(w) THEN Abandon(UpdateOf(w, "suspended")) ELSE UNCHANGED late
    /\ pc' = [pc EXCEPT ![w] = "failing"]
    /\ hb' = [hb EXCEPT ![w] = "off"]
    /\ Return(w, "err")
    /\ UNCHANGED <<due, lateClaims, fence, stop, seen, op, crashes>>
-----------------------------------------------------------------------------
(* After the handler: run_claimed_job finalizes the row. *)

CompleteJob(w) ==
    /\ pc[w] = "complete"
    /\ ApplyUpdate(UpdateOf(w, "succeeded"))
    /\ Leave(w)
    /\ UNCHANGED <<late, lateClaims, op, crashes>>

\* complete_job returns Err: the worker logs it and moves on.
CompleteErrs(w) ==
    /\ pc[w] = "complete"
    /\ Abandon(UpdateOf(w, "succeeded"))
    /\ Leave(w)
    /\ LetGo(w)
    /\ UNCHANGED <<due, lateClaims, op, crashes>>

\* classify_handler_failure and the read of fail_job.
FailRead(w) ==
    /\ pc[w] = "failing"
    /\ row[fence[w].job].cancel \/ ~stop[w]
    /\ Holds(w)
    /\ pc' = [pc EXCEPT ![w] = "failcas"]
    /\ seen' = [seen EXCEPT ![w] = {SnapshotOf(fence[w].job)}]
    /\ UNCHANGED <<queueVars, fence, stop, hb, op, crashes>>

\* The failure is ignored: a local stop without an operator flag (or with one
\* that could not be read), or a lost fence.
FailIgnored(w) ==
    /\ pc[w] = "failing" /\ (stop[w] \/ ~Holds(w))
    /\ Leave(w)
    /\ LetGo(w)
    /\ UNCHANGED <<due, late, lateClaims, op, crashes>>

\* Faulty: a failure after the last attempt is retried too.
FailAlwaysRetries(s) == IF s.cancel THEN "cancelled" ELSE "pending"

\* The state fail_job writes, computed from the row it read.
FailTo(s) == IF s.cancel THEN "cancelled" ELSE IF s.final THEN "failed" ELSE "pending"

FailJob(w) ==
    /\ pc[w] = "failcas"
    /\ \E s \in seen[w] : ApplyUpdate(UpdateOf(w, FailTo(s)))
    /\ Leave(w)
    /\ UNCHANGED <<late, lateClaims, op, crashes>>

\* The read or the update of fail_job errs.
FailErrs(w) ==
    /\ \/ pc[w] = "failing" /\ UNCHANGED late
       \/ pc[w] = "failcas" /\ \E s \in seen[w] : Abandon(UpdateOf(w, FailTo(s)))
    /\ Leave(w)
    /\ LetGo(w)
    /\ UNCHANGED <<due, lateClaims, op, crashes>>

\* An abandoned update reaches the database, or never does.
UpdateArrives(u) ==
    /\ late' = late \ {u}
    /\ ApplyUpdate(u)
    /\ UNCHANGED <<lateClaims, workerVars, op, crashes>>

UpdateLost(u) ==
    /\ late' = late \ {u}
    /\ UNCHANGED <<row, due, lateClaims, workerVars, op, crashes>>

\* The process dies and start_job_runtime begins again with a reclaim pass.
Crash(w) ==
    /\ pc[w] # "top" /\ crashes < MaxCrashes
    /\ crashes' = crashes + 1
    /\ Leave(w)
    /\ due' = [due EXCEPT ![w] = {}]
    /\ LetGo(w)
    /\ UNCHANGED <<late, lateClaims, op>>
-----------------------------------------------------------------------------
(* request_job_cancel: read, then a compare-and-set on the state read. *)

\* The operator knows the ids of jobs that were admitted.
CancelBegins(j) ==
    /\ row[j].state # "absent"
    /\ op.pc \in {"idle", "answered"}
    /\ op' = [pc |-> "read", job |-> j, running |-> FALSE, tries |-> CancelTries]
    /\ UNCHANGED <<queueVars, workerVars, crashes>>

\* An unknown or terminal row answers at once.
CancelReads ==
    LET state == row[op.job].state
    IN  /\ op.pc = "read"
        /\ op' = [op EXCEPT !.pc = IF state \in Active THEN "cas" ELSE "answered",
                            !.running = (state = "running"),
                            !.tries = IF state \in Active THEN @ ELSE 0]
        /\ UNCHANGED <<queueVars, workerVars, crashes>>

CancelPending(r) == [Released(r, "cancelled") EXCEPT !.cancel = TRUE]
CancelFlag(r) == [r EXCEPT !.cancel = TRUE]

\* Faulty: a compare-and-set miss ends the request.
CancelCasOnce ==
    LET j == op.job
        hit == row[j].state = (IF op.running THEN "running" ELSE "pending")
    IN  /\ op.pc = "cas"
        /\ row' = IF ~hit THEN row
                  ELSE [row EXCEPT ![j] = IF op.running THEN CancelFlag(@) ELSE CancelPending(@)]
        /\ op' = [op EXCEPT !.pc = "answered", !.running = FALSE, !.tries = 0]
        /\ UNCHANGED <<due, late, lateClaims, workerVars, crashes>>

\* Faulty: the pending-only cancel is not conditional on the state.
CancelCasUnconditional ==
    /\ op.pc = "cas"
    /\ row' = [row EXCEPT ![op.job] = IF op.running THEN CancelFlag(@) ELSE CancelPending(@)]
    /\ op' = [op EXCEPT !.pc = "answered", !.running = FALSE, !.tries = 0]
    /\ UNCHANGED <<due, late, lateClaims, workerVars, crashes>>

CancelCas ==
    LET j == op.job
        hit == row[j].state = (IF op.running THEN "running" ELSE "pending")
        done == hit \/ op.tries = 1
    IN  /\ op.pc = "cas"
        /\ row' = IF ~hit THEN row
                  ELSE [row EXCEPT ![j] = IF op.running THEN CancelFlag(@) ELSE CancelPending(@)]
        /\ op' = [op EXCEPT !.pc = IF done THEN "answered" ELSE "read",
                            !.running = FALSE, !.tries = IF done THEN 0 ELSE @ - 1]
        /\ UNCHANGED <<due, late, lateClaims, workerVars, crashes>>

\* The request fails on a database error and the operator is told so.
CancelErrs ==
    /\ op.pc \in {"read", "cas"}
    /\ op' = NoRequest
    /\ UNCHANGED <<queueVars, workerVars, crashes>>
-----------------------------------------------------------------------------
WorkerStep(w) ==
    \/ ReclaimRead(w) \/ ReclaimRow(w) \/ PruneTerminalJobs(w)
    \/ ClaimRuns(w) \/ ClaimReplies(w)
    \/ HandlerOk(w) \/ HandlerErr(w) \/ SuspendJob(w)
    \/ CompleteJob(w) \/ FailRead(w) \/ FailIgnored(w) \/ FailJob(w)

WorkerFault(w) ==
    \/ ReclaimFails(w) \/ ClaimGivesUp(w) \/ ClaimArrivesLate(w)
    \/ HeartbeatErrs(w) \/ HeartbeatDeadline(w) \/ SuspendFails(w)
    \/ CompleteErrs(w) \/ FailErrs(w) \/ Crash(w)

Operator == (\E j \in Jobs : CancelBegins(j)) \/ CancelReads \/ CancelCas \/ CancelErrs

Next ==
    \/ \E j \in Jobs : EnqueueJob(j) \/ RunAfterPasses(j) \/ LeaseLapses(j)
    \/ \E w \in Workers : WorkerStep(w) \/ WorkerFault(w) \/ HeartbeatAnswered(w)
    \/ \E u \in late : UpdateArrives(u) \/ UpdateLost(u)
    \/ Operator

Spec == Init /\ [][Next]_vars

\* Workers keep looping and handlers return; timers run out; a statement that
\* is sent again and again is eventually executed.
Fairness ==
    /\ \A w \in Workers : /\ WF_vars(WorkerStep(w))
                          /\ SF_vars(ReclaimRow(w))
                          /\ SF_vars(ClaimRuns(w))
    /\ \A j \in Jobs : WF_vars(RunAfterPasses(j)) /\ WF_vars(LeaseLapses(j))

FairSpec == Spec /\ Fairness
-----------------------------------------------------------------------------
(* Properties. *)

\* Every variable has its type.
TypeOK ==
    /\ row \in [Jobs -> Row]
    /\ pc \in [Workers -> {"top", "reclaim", "claim", "claimed", "run", "complete",
                            "failing", "failcas"}]
    /\ fence \in [Workers -> Fence \cup {NoFence}]
    /\ stop \in [Workers -> BOOLEAN]
    /\ hb \in [Workers -> {"off", "sure", "unsure", "lost"}]
    /\ seen \in [Workers -> SUBSET Snapshot]
    /\ due \in [Workers -> SUBSET Jobs]
    /\ late \subseteq Update
    /\ lateClaims \subseteq Workers
    /\ op \in [pc : {"read", "cas"}, job : Jobs, running : BOOLEAN, tries : 1 .. CancelTries]
             \cup [pc : {"answered"}, job : Jobs, running : {FALSE}, tries : {0}]
             \cup {NoRequest}
    /\ crashes \in 0 .. MaxCrashes

\* At most one active row per dedup key, whatever was retried, reclaimed or
\* resumed since (idx_jobs_dedup_active, enqueue_job).
DedupUnique == \A i, j \in ActiveJobs : SameKey(i, j) => i = j

\* The pending cap bounds the active rows: no retry, reclaim or late update
\* brings a row back past it (enqueue_job's COUNT under the slot lock).
AdmissionCap == Cardinality(ActiveJobs) <= MaxPending

\* A row is succeeded only on the word of the run that its generation counts:
\* no stale worker and no late complete_job speaks for a newer claim.
SuccessIsCurrentRun ==
    [][\A j \in Jobs :
         row[j].state # "succeeded" /\ row'[j].state = "succeeded"
            => row[j].said \in {"ok", "unfenced"}]_vars

\* No row is claimed more than max_attempts times, and a retry is queued only
\* while an attempt is left (fail_job, reclaim_expired_leases, claim).
AttemptsBounded ==
    \A j \in Jobs : /\ row[j].attempt <= MaxAttempts
                    /\ row[j].state = "pending" /\ ~row[j].resume => row[j].attempt < MaxAttempts

\* A running row is being followed by the worker that claimed it, unless that
\* worker crashed, gave up on a lost reply or ignored its result.  Replaying a
\* claim's operation id therefore never leaves a second row behind.
RunningIsFollowed ==
    \A j \in Jobs : row[j].state = "running" =>
        \/ row[j].left
        \/ \E w \in Workers : /\ pc[w] \in {"claimed", "run", "complete", "failing", "failcas"}
                              /\ fence[w] = [job |-> j, gen |-> row[j].gen]
                              /\ row[j].owner = w

\* docs/jobs.md: "a cancel that returns never leaves a running job unflagged".
CancelNeverLost ==
    op.pc = "answered" /\ row[op.job].state = "running" => row[op.job].cancel

\* A row whose lease is live leaves running only on the word of its own
\* handler: reclaim never takes a row that a heartbeat has extended.
LiveLeaseNotStolen ==
    [][\A j \in Jobs :
         row[j].state = "running" /\ row[j].lease = "live" /\ row'[j].state # "running"
            => row[j].said # "no" \/ row'[j].resume]_vars

\* Whatever the workers do, a job once asked to stop is not handed to a worker
\* again, and cancel_requested is never cleared (claim_next_job, fail_job).
CancelSticks ==
    [][\A j \in Jobs : row[j].cancel /\ row'[j].state # "pruned" =>
         /\ row'[j].cancel
         /\ row'[j].gen = row[j].gen]_vars

\* The job's life as JobLifecycle promises it.
Phase(r) ==
    CASE r.state = "pending"   -> IF r.resume THEN "parked" ELSE "waiting"
      [] r.state = "running"   -> "active"
      [] r.state = "succeeded" -> "done"
      [] r.state = "pruned"    -> "forgotten"
      [] OTHER                 -> r.state

Lifecycle == INSTANCE JobLifecycle WITH
    job <- [j \in Jobs |-> [phase |-> Phase(row[j]), tries |-> row[j].attempt,
                            asked |-> row[j].cancel]],
    Conflict <- SameKey,
    Refusable <- IF Backend = "plan" THEN CopyJobs ELSE {},
    Tries <- MaxAttempts,
    Cap <- MaxPending

\* The queue implements the lifecycle: every step of every actor moves jobs
\* only along it.
RefinesLifecycle == Lifecycle!LSpec

\* A job that nobody asks to stop reaches a terminal state, through crashes,
\* lost replies and expired leases.
UncancelledJobSettles ==
    \A j \in Jobs : (row[j].state \in Active) ~> (row[j].state \notin Active \/ row[j].cancel)

\* Every admitted job reaches a terminal state, asked to stop or not.
EveryJobSettles ==
    \A j \in Jobs : (row[j].state \in Active) ~> (row[j].state \notin Active)

\* docs/jobs.md: the cancel request "cancels `pending` immediately and flags
\* `running` for a cooperative stop": a job whose cancel was answered ends.
AnsweredCancelSettles ==
    \A j \in Jobs : (op.pc = "answered" /\ op.job = j) ~> (row[j].state \notin Active)

\* docs/jobs.md: past the confirmed lease "the worker cancels locally and
\* ignores the result".
LostLeaseResultIgnored ==
    [][\A j \in Jobs :
         row[j].state # "succeeded" /\ row'[j].state = "succeeded"
            => row[j].said # "unfenced"]_vars
-----------------------------------------------------------------------------
(* The inductive invariant behind the safety theorems of JobQueueSafety. *)

\* A worker past its claim knows which row and generation it holds.
FenceKnown ==
    \A w \in Workers : pc[w] \in {"run", "complete", "failing", "failcas"} => fence[w] # NoFence

Gone(j) == row[j].state = "pruned"

Fenced(w) == fence[w] # NoFence /\ Holds(w)

\* Nothing a worker holds, has read or has in flight is ahead of its row.
NeverAhead ==
    /\ \A w \in Workers : fence[w] # NoFence =>
           Gone(fence[w].job) \/ fence[w].gen <= row[fence[w].job].gen
    /\ \A w \in Workers : \A s \in seen[w] : Gone(s.job) \/ s.gen <= row[s.job].gen
    /\ \A u \in late : Gone(u.job) \/ u.gen <= row[u.job].gen

\* A snapshot stays true of the attempt while its generation runs.
SnapshotsHold ==
    /\ \A w \in Workers : \A s \in seen[w] :
           row[s.job].state = "running" /\ row[s.job].gen = s.gen
               => /\ s.final <=> row[s.job].attempt >= MaxAttempts
                  /\ s.cancel => row[s.job].cancel
    /\ \A w \in Workers : pc[w] = "failcas" =>
           \A s \in seen[w] : s.job = fence[w].job /\ s.gen = fence[w].gen

\* Only plugin_copy rows suspend, and no plan ever runs one.
SuspendsAreCopies ==
    /\ \A j \in Jobs : row[j].resume => Backend = "local"
    /\ \A j \in CopyJobs : Backend = "plan" => row[j].state # "running"
    /\ \A u \in late : u.to = "suspended" => u.job \in CopyJobs /\ u.gen <= MaxSuspends

\* What an update in flight would write is still right if its fence holds.
LateIsTrue ==
    \A u \in late : FenceHolds(u) =>
        /\ u.to = "pending" => row[u.job].attempt < MaxAttempts
        /\ u.to = "failed" => row[u.job].attempt >= MaxAttempts
        /\ u.to = "cancelled" => row[u.job].cancel
        /\ u.to = "succeeded" => row[u.job].said \in {"ok", "unfenced"}
        /\ u.to \notin {"renew", "suspended"} => row[u.job].said # "no"

\* What the handler said is known to the worker that still holds the row.
SaidIsHeard ==
    /\ \A j \in Jobs : row[j].state # "running" => row[j].said = "no"
    /\ \A w \in Workers : Fenced(w) =>
           /\ pc[w] \in {"claimed", "run"} => row[fence[w].job].said = "no"
           /\ pc[w] = "complete" => row[fence[w].job].said \in {"ok", "unfenced"}
           /\ pc[w] \in {"failing", "failcas"} => row[fence[w].job].said = "err"

\* A row that a reclaim pass may still take has not been renewed since.
DueIsPast == \A w \in Workers : \A j \in due[w] :
    row[j].state = "running" => row[j].lease # "live"

\* A job that runs, or was suspended, has begun an attempt.
TriedOnce == \A j \in Jobs : row[j].state = "running" \/ row[j].resume => row[j].attempt >= 1

\* A row that was never admitted is blank.
BlankUntilAdmitted == \A j \in Jobs : row[j].state = "absent" => row[j] = NoRow

\* Claims are counted twice, as generations and as attempts, and differ only by
\* the generations that resumed a suspended job.
ClaimsCounted ==
    \A j \in Jobs : /\ row[j].gen <= row[j].attempt + MaxSuspends
                    /\ row[j].resume => row[j].gen <= MaxSuspends
                    /\ row[j].state = "running" => row[j].gen >= 1

\* How often a row has started or stopped running: odd while a generation runs.
Turns(j) == IF row[j].state = "running" THEN 2 * row[j].gen - 1 ELSE 2 * row[j].gen

\* Every round that request_job_cancel lost was lost to a turn of the row, and a
\* request that was answered without effect has lost all its rounds.
CancelAccounted ==
    LET j == op.job
        lost == CancelTries - op.tries
        missed == op.running # (row[j].state = "running")
    IN  /\ op.pc # "idle" => row[j].state # "absent"
        /\ op.pc = "read" /\ row[j].state \in Active => lost <= Turns(j)
        /\ op.pc = "cas" /\ row[j].state \in Active =>
               lost <= Turns(j) /\ (missed => lost < Turns(j))
        /\ op.pc = "answered" /\ row[j].state \in Active =>
               row[j].cancel \/ CancelTries <= Turns(j)

\* What workers hold, have read or have in flight never runs ahead of the row,
\* and stays true of it while its generation runs: the invariant that makes
\* every conditional update of the code safe.
IInv == /\ FenceKnown /\ NeverAhead /\ SnapshotsHold /\ SuspendsAreCopies
        /\ LateIsTrue /\ SaidIsHeard /\ DueIsPast /\ BlankUntilAdmitted
        /\ AttemptsBounded /\ TriedOnce /\ RunningIsFollowed /\ ClaimsCounted /\ CancelAccounted
=============================================================================
