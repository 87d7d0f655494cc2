--------------------------- MODULE JobQueueSafety ---------------------------
(***************************************************************************)
(* The inductive invariant of JobQueue and the safety theorems that rest   *)
(* on it.  JobQueueProofs says what a step does to a row; this module says *)
(* what it does to the fences, snapshots and updates that workers hold,    *)
(* and combines the two.  Last, the queue implements JobLifecycle.         *)
(***************************************************************************)
EXTENDS JobQueueProofs

\* Generations only grow, and a row starts running only as a new generation.
LEMMA GenMoves ==
    ASSUME TypeInv, [Next]_vars, NEW i \in Jobs
    PROVE  /\ row[i] \in Row /\ row'[i] \in Row
           /\ Gone(i) => Gone(i)'
           /\ Gone(i)' \/ row'[i].gen >= row[i].gen
           /\ row'[i].state = "running" =>
                \/ /\ row[i].state = "running" /\ row'[i].gen = row[i].gen
                   /\ row'[i].attempt = row[i].attempt /\ row'[i].owner = row[i].owner
                   /\ row[i].cancel => row'[i].cancel
                \/ row[i].state = "pending" /\ row'[i].gen = row[i].gen + 1
<1>1. row[i] \in Row /\ row'[i] \in Row
    BY TypeStep DEF TypeInv, TypeOK
<1>2. CASE EnqueueJob(i)
  <2>1. row'[i] = [row[i] EXCEPT !.state = "pending", !.ready = TRUE] /\ row[i].state = "absent"
      BY <1>2 DEF EnqueueJob, TypeInv, TypeOK
  <2>q. QED BY <1>1, <2>1 DEF Row, Gone
<1>3. CASE Quiet(row[i], row'[i])
    BY <1>1, <1>3 DEF Quiet, Row, Gone
<1>4. CASE Stopped(row[i], row'[i])
    BY <1>1, <1>4 DEF Stopped, Row, Gone, Terminal
<1>5. CASE Taken(row[i], row'[i])
    BY <1>1, <1>5 DEF Taken, Row, Gone
<1>6. CASE Removed(row[i], row'[i])
    BY <1>1, <1>6 DEF Removed, NoRow, Gone, Terminal
<1>q. QED BY <1>2, <1>3, <1>4, <1>5, <1>6, RowMoves DEF RowMove, Calm

\* A worker's snapshots are old ones, or are taken of the table as it is.
LEMMA SeenMoves ==
    ASSUME TypeInv, [Next]_vars, NEW w \in Workers, NEW s \in seen'[w]
    PROVE  s \in seen[w] \/ (UNCHANGED row /\ \E j \in Jobs : s = SnapshotOf(j))
<1>0. seen \in [Workers -> SUBSET Snapshot]
    BY DEF TypeInv, TypeOK
<1>1. CASE UNCHANGED seen
    BY <1>1
<1>2. ASSUME NEW v \in Workers, seen' = [seen EXCEPT ![v] = {}]
      PROVE  s \in seen[w]
    BY <1>0, <1>2
<1>3. ASSUME NEW v \in Workers, Leave(v)
      PROVE  s \in seen[w]
    BY <1>2, <1>3 DEF Leave
<1>4. ASSUME NEW v \in Workers, ReclaimRead(v)
      PROVE  s \in seen[w] \/ (UNCHANGED row /\ \E j \in Jobs : s = SnapshotOf(j))
    BY <1>0, <1>4 DEF ReclaimRead
<1>5. ASSUME NEW v \in Workers, ReclaimRow(v)
      PROVE  s \in seen[w]
    BY <1>0, <1>5 DEF ReclaimRow
<1>6. ASSUME NEW v \in Workers, FailRead(v)
      PROVE  s \in seen[w] \/ (UNCHANGED row /\ \E j \in Jobs : s = SnapshotOf(j))
  <2>1. fence[v].job \in Jobs
      BY <1>6 DEF FailRead, TypeInv, TypeOK, FenceKnown, Fence
  <2>q. QED BY <1>0, <1>6, <2>1 DEF FailRead, queueVars
<1>7. ASSUME NEW v \in Workers, WorkerStep(v)
      PROVE  s \in seen[w] \/ (UNCHANGED row /\ \E j \in Jobs : s = SnapshotOf(j))
    BY <1>1, <1>3, <1>4, <1>5, <1>6, <1>7 DEF WorkerStep, PruneTerminalJobs, ClaimRuns,
       ClaimReplies, HandlerOk, HandlerErr, SuspendJob, CompleteJob, FailIgnored, FailJob
<1>8. ASSUME NEW v \in Workers, WorkerFault(v) \/ HeartbeatAnswered(v)
      PROVE  s \in seen[w]
    BY <1>1, <1>2, <1>3, <1>8 DEF WorkerFault, ReclaimFails, ClaimGivesUp, ClaimArrivesLate,
       HeartbeatErrs, HeartbeatDeadline, SuspendFails, CompleteErrs, FailErrs, Crash,
       HeartbeatAnswered, workerVars
<1>9. ASSUME \/ \E j \in Jobs : EnqueueJob(j) \/ RunAfterPasses(j) \/ LeaseLapses(j)
             \/ \E u \in late : UpdateArrives(u) \/ UpdateLost(u)
             \/ Operator
      PROVE  UNCHANGED seen
    BY <1>9 DEF EnqueueJob, RunAfterPasses, LeaseLapses, UpdateArrives, UpdateLost, Operator,
       CancelBegins, CancelReads, CancelCas, CancelErrs, workerVars
<1>q. QED BY <1>1, <1>7, <1>8, <1>9 DEF Next, vars

\* The row a claim names is taken by the claiming worker.
LEMMA ClaimTakes ==
    ASSUME TypeInv, NEW w \in Workers, NEW j \in Jobs, NEW left \in BOOLEAN, ClaimNextJob(w, j, left)
    PROVE  Taken(row[j], row'[j])
<1>0. row[j] \in Row /\ j # NoJob
    BY IdAssumption DEF TypeInv, TypeOK
<1>1. CASE Backend = "local" /\ ClaimLocal(w, j, left)
  <2>1. row[j].state = "pending" /\ ~row[j].cancel /\ row'[j] = ClaimedLocal(row[j], w, left)
      BY <1>0, <1>1, Zenon DEF ClaimLocal, Due
  <2>q. QED BY <1>0, <2>1, ClaimedMoves
<1>2. CASE Backend = "plan" /\ ClaimPlan(w, j, left)
  <2>1. row[j].state = "pending" /\ ~row[j].cancel /\ row'[j] = ClaimedPlan(row[j], w, left)
      BY <1>0, <1>2, Zenon DEF ClaimPlan, Due
  <2>q. QED BY <1>0, <1>2, <2>1, ClaimedMoves
<1>q. QED BY <1>1, <1>2 DEF ClaimNextJob

\* A worker's fence stays, is dropped, or is the generation it just started.
LEMMA FenceMoves ==
    ASSUME TypeInv, [Next]_vars, NEW w \in Workers
    PROVE  \/ fence'[w] = fence[w]
           \/ fence'[w] = NoFence
           \/ /\ pc[w] = "claim" /\ pc'[w] = "claimed"
              /\ \E j \in Jobs : /\ fence'[w] = [job |-> j, gen |-> row[j].gen + 1]
                                 /\ Taken(row[j], row'[j])
<1>0. fence \in [Workers -> Fence \cup {NoFence}] /\ pc \in [Workers -> PCs]
    BY DEF TypeInv, TypeOK, PCs
<1>1. CASE UNCHANGED fence
    BY <1>1
<1>2. ASSUME NEW v \in Workers, Leave(v)
      PROVE  fence'[w] = fence[w] \/ fence'[w] = NoFence
    BY <1>0, <1>2 DEF Leave
<1>3. ASSUME NEW v \in Workers, ClaimRuns(v)
      PROVE  \/ fence'[w] = fence[w]
             \/ fence'[w] = NoFence
             \/ /\ pc[w] = "claim" /\ pc'[w] = "claimed"
                /\ \E j \in Jobs : /\ fence'[w] = [job |-> j, gen |-> row[j].gen + 1]
                                   /\ Taken(row[j], row'[j])
  <2>1. PICK j \in Jobs \cup {NoJob} : /\ ClaimNextJob(v, j, FALSE)
                                      /\ fence' = [fence EXCEPT ![v] = FenceOf(j)]
      BY <1>3 DEF ClaimRuns
  <2>2. pc[v] = "claim" /\ pc' = [pc EXCEPT ![v] = "claimed"]
      BY <1>3 DEF ClaimRuns
  <2>3. CASE j = NoJob
      BY <1>0, <2>1, <2>3 DEF FenceOf
  <2>4. CASE j # NoJob
    <3>1. j \in Jobs /\ FALSE \in BOOLEAN BY <2>4
    <3>2. Taken(row[j], row'[j]) BY <2>1, <3>1, ClaimTakes
    <3>q. QED BY <1>0, <2>1, <2>2, <2>4, <3>1, <3>2 DEF FenceOf
  <2>q. QED BY <2>3, <2>4
<1>4. ASSUME NEW v \in Workers, ~ClaimRuns(v), WorkerStep(v)
      PROVE  fence'[w] = fence[w] \/ fence'[w] = NoFence
    BY <1>1, <1>2, <1>4 DEF WorkerStep, ReclaimRead, ReclaimRow, PruneTerminalJobs,
       ClaimReplies, HandlerOk, HandlerErr, SuspendJob, CompleteJob, FailRead, FailIgnored, FailJob
<1>5. ASSUME NEW v \in Workers, WorkerFault(v) \/ HeartbeatAnswered(v)
      PROVE  fence'[w] = fence[w] \/ fence'[w] = NoFence
    BY <1>1, <1>2, <1>5 DEF WorkerFault, ReclaimFails, ClaimGivesUp, ClaimArrivesLate,
       HeartbeatErrs, HeartbeatDeadline, SuspendFails, CompleteErrs, FailErrs, Crash,
       HeartbeatAnswered, workerVars
<1>6. ASSUME \/ \E j \in Jobs : EnqueueJob(j) \/ RunAfterPasses(j) \/ LeaseLapses(j)
             \/ \E u \in late : UpdateArrives(u) \/ UpdateLost(u)
             \/ Operator
      PROVE  UNCHANGED fence
    BY <1>6 DEF EnqueueJob, RunAfterPasses, LeaseLapses, UpdateArrives, UpdateLost, Operator,
       CancelBegins, CancelReads, CancelCas, CancelErrs, workerVars
<1>q. QED BY <1>1, <1>3, <1>4, <1>5, <1>6 DEF Next, vars

\* What a worker leaves in flight when it stops waiting.
Leaves(w, to) ==
    \/ pc[w] = "run" /\ to = "renew"
    \/ pc[w] = "run" /\ to = "suspended" /\ fence[w].job \in CopyJobs /\ fence[w].gen <= MaxSuspends
    \/ pc[w] = "complete" /\ to = "succeeded"
    \/ pc[w] = "failcas" /\ \E s \in seen[w] : to = FailTo(s)

\* A new update in flight was sent by a worker for its own fence.
LEMMA LateMoves ==
    ASSUME TypeInv, [Next]_vars, NEW u \in late'
    PROVE  \/ u \in late
           \/ \E w \in Workers : /\ fence[w] # NoFence
                                 /\ \E to \in Outcome : Leaves(w, to) /\ u = UpdateOf(w, to)
<1>0. \A s : FailTo(s) \in Outcome
    BY DEF FailTo, Outcome
<1>1. CASE late' \subseteq late
    BY <1>1
<1>2. ASSUME NEW w \in Workers, NEW to \in Outcome, Leaves(w, to), Abandon(UpdateOf(w, to))
      PROVE  \/ u \in late
             \/ \E v \in Workers : /\ fence[v] # NoFence
                                   /\ \E x \in Outcome : Leaves(v, x) /\ u = UpdateOf(v, x)
  <2>1. fence[w] # NoFence
      BY <1>2 DEF Leaves, TypeInv, FenceKnown
  <2>q. QED BY <1>2, <2>1 DEF Abandon
<1>3. ASSUME NEW w \in Workers, HeartbeatErrs(w) \/ SuspendFails(w) \/ CompleteErrs(w) \/ FailErrs(w)
      PROVE  late' \subseteq late \/ \E to \in Outcome : Leaves(w, to) /\ Abandon(UpdateOf(w, to))
  <2>1. CASE HeartbeatErrs(w) BY <2>1 DEF HeartbeatErrs, Leaves, Outcome
  <2>2. CASE SuspendFails(w) BY <2>2 DEF SuspendFails, Leaves, Outcome
  <2>3. CASE CompleteErrs(w) BY <2>3 DEF CompleteErrs, Leaves, Outcome
  <2>4. CASE FailErrs(w) BY <1>0, <2>4 DEF FailErrs, Leaves
  <2>q. QED BY <1>3, <2>1, <2>2, <2>3, <2>4
<1>4. ASSUME NEW w \in Workers, WorkerStep(w) \/ HeartbeatAnswered(w)
      PROVE  UNCHANGED late
    BY <1>4 DEF WorkerStep, ReclaimRead, ReclaimRow, PruneTerminalJobs, ClaimRuns, ClaimReplies,
       HandlerOk, HandlerErr, SuspendJob, CompleteJob, FailRead, FailIgnored, FailJob,
       HeartbeatAnswered, queueVars
<1>5. ASSUME NEW w \in Workers, ReclaimFails(w) \/ ClaimGivesUp(w) \/ ClaimArrivesLate(w)
                                \/ HeartbeatDeadline(w) \/ Crash(w)
      PROVE  UNCHANGED late
    BY <1>5 DEF ReclaimFails, ClaimGivesUp, ClaimArrivesLate, HeartbeatDeadline, Crash, queueVars
<1>6. ASSUME \/ \E j \in Jobs : EnqueueJob(j) \/ RunAfterPasses(j) \/ LeaseLapses(j)
             \/ \E v \in late : UpdateArrives(v) \/ UpdateLost(v)
             \/ Operator
      PROVE  late' \subseteq late
    BY <1>6 DEF EnqueueJob, RunAfterPasses, LeaseLapses, UpdateArrives, UpdateLost, Operator,
       CancelBegins, CancelReads, CancelCas, CancelErrs, queueVars
<1>q. QED BY <1>1, <1>2, <1>3, <1>4, <1>5, <1>6 DEF Next, vars, WorkerFault

\* A reclaim pass takes on rows only when it reads them expired.
LEMMA DueMoves ==
    ASSUME TypeInv, [Next]_vars, NEW w \in Workers, NEW j \in due'[w]
    PROVE  j \in due[w] \/ (UNCHANGED row /\ row[j].lease # "live")
<1>0. due \in [Workers -> SUBSET Jobs]
    BY DEF TypeInv, TypeOK
<1>1. CASE UNCHANGED due
    BY <1>1
<1>2. ASSUME NEW u, ApplyUpdate(u)
      PROVE  j \in due[w]
    BY <1>0, <1>2 DEF ApplyUpdate
<1>3. ASSUME NEW v, NEW i, NEW left, ClaimNextJob(v, i, left)
      PROVE  j \in due[w]
    BY <1>0, <1>3 DEF ClaimNextJob
<1>4. ASSUME NEW v \in Workers, due' = [due EXCEPT ![v] = {}]
      PROVE  j \in due[w]
    BY <1>0, <1>4
<1>5. ASSUME NEW v \in Workers, ReclaimRead(v)
      PROVE  j \in due[w] \/ (UNCHANGED row /\ row[j].lease # "live")
    BY <1>0, <1>5 DEF ReclaimRead
<1>6. ASSUME NEW v \in Workers, ~ReclaimRead(v), WorkerStep(v)
      PROVE  j \in due[w]
    BY <1>1, <1>2, <1>3, <1>4, <1>6 DEF WorkerStep, ReclaimRow, PruneTerminalJobs, ClaimRuns,
       ClaimReplies, HandlerOk, HandlerErr, SuspendJob, CompleteJob, FailRead, FailIgnored,
       FailJob, queueVars
<1>7. ASSUME NEW v \in Workers, WorkerFault(v) \/ HeartbeatAnswered(v)
      PROVE  j \in due[w]
    BY <1>1, <1>2, <1>3, <1>4, <1>7 DEF WorkerFault, ReclaimFails, ClaimGivesUp, ClaimArrivesLate,
       HeartbeatErrs, HeartbeatDeadline, SuspendFails, CompleteErrs, FailErrs, Crash,
       HeartbeatAnswered, queueVars
<1>8. ASSUME \/ \E i \in Jobs : EnqueueJob(i) \/ RunAfterPasses(i) \/ LeaseLapses(i)
             \/ \E u \in late : UpdateArrives(u) \/ UpdateLost(u)
             \/ Operator
      PROVE  j \in due[w]
    BY <1>1, <1>2, <1>8 DEF EnqueueJob, RunAfterPasses, LeaseLapses, UpdateArrives, UpdateLost,
       Operator, CancelBegins, CancelReads, CancelCas, CancelErrs, queueVars
<1>q. QED BY <1>1, <1>5, <1>6, <1>7, <1>8 DEF Next, vars
-----------------------------------------------------------------------------
(* Why a row leaves running. *)

\* A row that stops running does so for a reason its history supports.
StopReason(j) ==
    row[j].state = "running" /\ row'[j].state # "running" =>
        /\ row'[j].state = "pending" /\ ~row'[j].resume => row[j].attempt < MaxAttempts
        /\ row'[j].state = "failed" => row[j].attempt >= MaxAttempts
        /\ row'[j].state = "cancelled" => row[j].cancel
        /\ row'[j].state = "succeeded" => row[j].said \in {"ok", "unfenced"}
        /\ row[j].lease # "live" \/ row[j].said # "no" \/ row'[j].resume
        /\ row'[j].resume => row[j].resume \/ (j \in CopyJobs /\ row[j].gen <= MaxSuspends)

\* What justifies the write of an update whose fence holds.
Justified(u) ==
    /\ u.to = "pending" => row[u.job].attempt < MaxAttempts
    /\ u.to = "failed" => row[u.job].attempt >= MaxAttempts
    /\ u.to = "cancelled" => row[u.job].cancel
    /\ u.to = "succeeded" => row[u.job].said \in {"ok", "unfenced"}
    /\ u.to \notin {"renew", "suspended"} => row[u.job].said # "no"
    /\ u.to = "suspended" => u.job \in CopyJobs /\ u.gen <= MaxSuspends

\* A fenced update that stops a row does so for the reason it carries.
LEMMA ApplyStops ==
    ASSUME TypeInv, NEW u \in Update, ApplyUpdate(u), FenceHolds(u) => Justified(u)
    PROVE  \A j \in Jobs : StopReason(j)
<1>0. row \in [Jobs -> Row] /\ u.job \in Jobs /\ u.to \in Outcome
    BY DEF TypeInv, TypeOK, Update
<1>1. CASE FenceHolds(u)
  <2> DEFINE a == row[u.job]
             b == Written(a, u.to)
  <2>1. row' = [row EXCEPT ![u.job] = b] /\ a \in Row /\ a.state = "running"
      BY <1>0, <1>1 DEF ApplyUpdate, FenceHolds
  <2>2. CASE u.to = "renew"
    <3>1. b.state = "running" BY <2>1, <2>2 DEF Written, Row
    <3>q. QED BY <1>0, <2>1, <3>1 DEF StopReason
  <2>3. CASE u.to = "suspended"
    <3>1. b.state = "pending" /\ b.resume
        BY <2>1, <2>3 DEF Written, Released, Row
    <3>2. u.job \in CopyJobs /\ a.gen <= MaxSuspends
        BY <1>1, <2>3 DEF Justified, FenceHolds
    <3>q. QED BY <1>0, <2>1, <2>3, <3>1, <3>2 DEF StopReason
  <2>4. CASE u.to \notin {"renew", "suspended"}
    <3>1. b.state = u.to /\ (b.resume => a.resume)
        BY <1>0, <2>1, <2>4 DEF Written, Released, Row, Outcome
    <3>q. QED BY <1>0, <1>1, <2>1, <2>4, <3>1 DEF StopReason, Justified
  <2>q. QED BY <2>2, <2>3, <2>4
<1>2. CASE ~FenceHolds(u)
    BY <1>0, <1>2 DEF ApplyUpdate, StopReason
<1>q. QED BY <1>1, <1>2

\* Everything a worker sends for a row it still holds is justified.
LEMMA LeavesJustified ==
    ASSUME TypeInv, IInv, NEW w \in Workers, NEW to \in Outcome, Leaves(w, to),
           FenceHolds(UpdateOf(w, to))
    PROVE  Justified(UpdateOf(w, to))
<1> DEFINE u == UpdateOf(w, to)
           j == fence[w].job
<1>1. fence[w] # NoFence /\ u.job = j /\ u.to = to /\ u.gen = fence[w].gen
    BY DEF Leaves, TypeInv, FenceKnown, UpdateOf
<1>2. Fenced(w) /\ row[j].state = "running" /\ row[j].gen = fence[w].gen
    BY <1>1 DEF Fenced, Holds, FenceHolds, UpdateOf
<1>3. CASE pc[w] = "run"
    BY <1>1, <1>3 DEF Leaves, Justified
<1>4. CASE pc[w] = "complete"
  <2>1. to = "succeeded" /\ row[j].said \in {"ok", "unfenced"}
      BY <1>2, <1>4 DEF Leaves, IInv, SaidIsHeard
  <2>q. QED BY <1>1, <2>1 DEF Justified
<1>5. CASE pc[w] = "failcas"
  <2>1. PICK s \in seen[w] : to = FailTo(s)
      BY <1>5 DEF Leaves
  <2>2. s.job = j /\ s.gen = row[j].gen
      BY <1>2, <1>5, <2>1 DEF IInv, SnapshotsHold
  <2>3. (s.final <=> row[j].attempt >= MaxAttempts) /\ (s.cancel => row[j].cancel)
      BY <1>2, <2>1, <2>2 DEF IInv, SnapshotsHold
  <2>4. row[j].said = "err"
      BY <1>2, <1>5 DEF IInv, SaidIsHeard
  <2>5. row[j].attempt \in Nat
      BY <1>1, UpdateOfType DEF TypeInv, TypeOK, Row
  <2>6. to = "pending" => row[j].attempt < MaxAttempts
      BY <2>1, <2>3, <2>5, LimitAssumption DEF FailTo
  <2>7. to = "failed" => row[j].attempt >= MaxAttempts
      BY <2>1, <2>3 DEF FailTo
  <2>8. to = "cancelled" => row[j].cancel
      BY <2>1, <2>3 DEF FailTo
  <2>9. to \notin {"renew", "succeeded", "suspended"}
      BY <2>1 DEF FailTo
  <2>q. QED BY <1>1, <2>4, <2>6, <2>7, <2>8, <2>9 DEF Justified
<1>q. QED BY <1>3, <1>4, <1>5 DEF Leaves

\* A claim changes no running row.
LEMMA ClaimKeepsRunning ==
    ASSUME TypeInv, NEW w, NEW i, NEW left, ClaimNextJob(w, i, left), NEW j \in Jobs,
           row[j].state = "running"
    PROVE  row'[j] = row[j]
<1>0. row \in [Jobs -> Row] BY DEF TypeInv, TypeOK
<1>1. j \notin Due BY DEF Due
<1>2. CASE ClaimLocal(w, i, left)
    BY <1>1, <1>2, IdAssumption, Zenon DEF ClaimLocal
<1>3. CASE ClaimPlan(w, i, left)
    BY <1>1, <1>3, IdAssumption, Zenon DEF ClaimPlan
<1>q. QED BY <1>2, <1>3 DEF ClaimNextJob

\* Reclaim stops a row whose lease is past, as the snapshot's attempt says.
LEMMA ReclaimStops ==
    ASSUME TypeInv, IInv, NEW w \in Workers, ReclaimRow(w), NEW j \in Jobs
    PROVE  StopReason(j)
<1>0. row \in [Jobs -> Row] /\ seen[w] \subseteq Snapshot
    BY DEF TypeInv, TypeOK
<1>1. PICK s \in seen[w] : row' = IF ReclaimHolds(w, s)
              THEN [row EXCEPT ![s.job] = Reclaimed(@, ReclaimTo(s))] ELSE row
    BY DEF ReclaimRow
<1>2. CASE ReclaimHolds(w, s) /\ s.job = j
  <2> DEFINE b == Reclaimed(row[j], ReclaimTo(s))
  <2>1. row'[j] = b BY <1>0, <1>1, <1>2
  <2>2. row[j].state = "running" /\ row[j].gen = s.gen /\ row[j].lease # "live"
      BY <1>2 DEF ReclaimHolds, IInv, DueIsPast
  <2>3. (s.final <=> row[j].attempt >= MaxAttempts) /\ (s.cancel => row[j].cancel)
      BY <1>2, <2>2 DEF IInv, SnapshotsHold
  <2>4. row[j].attempt \in Nat BY <1>0 DEF Row
  <2>5. b.state = ReclaimTo(s) /\ (b.resume => row[j].resume)
      BY <1>0 DEF Reclaimed, Released, Row
  <2>6. ReclaimTo(s) = "pending" => row[j].attempt < MaxAttempts
      BY <2>3, <2>4, LimitAssumption DEF ReclaimTo
  <2>7. ReclaimTo(s) = "failed" => row[j].attempt >= MaxAttempts
      BY <2>3 DEF ReclaimTo
  <2>8. ReclaimTo(s) = "cancelled" => row[j].cancel
      BY <2>3 DEF ReclaimTo
  <2>9. ReclaimTo(s) # "succeeded"
      BY DEF ReclaimTo
  <2>q. QED BY <2>1, <2>2, <2>5, <2>6, <2>7, <2>8, <2>9 DEF StopReason
<1>3. CASE ~(ReclaimHolds(w, s) /\ s.job = j)
    BY <1>0, <1>1, <1>3 DEF StopReason
<1>q. QED BY <1>2, <1>3

\* Every step that takes a row out of running has such a reason.
LEMMA StopReasons ==
    ASSUME TypeInv, IInv, [Next]_vars, NEW j \in Jobs
    PROVE  StopReason(j)
<1>0. row \in [Jobs -> Row] /\ fence \in [Workers -> Fence \cup {NoFence}]
    BY DEF TypeInv, TypeOK
<1>1. CASE row[j].state = "running" => row'[j].state = "running"
    BY <1>1 DEF StopReason
<1>2. CASE \E i \in Jobs : EnqueueJob(i) \/ RunAfterPasses(i) \/ LeaseLapses(i)
    BY <1>0, <1>1, <1>2 DEF EnqueueJob, RunAfterPasses, LeaseLapses, Row
<1>3. ASSUME NEW w \in Workers, ClaimRuns(w) \/ ClaimArrivesLate(w)
      PROVE  StopReason(j)
    BY <1>1, <1>3, ClaimKeepsRunning DEF ClaimRuns, ClaimArrivesLate
<1>4. ASSUME NEW w \in Workers, LetGo(w) \/ \E x : Return(w, x)
      PROVE  StopReason(j)
  <2>1. ASSUME NEW k, row' = [row EXCEPT ![k].left = TRUE]
        PROVE  row'[j].state = row[j].state
      BY <1>0, <2>1 DEF Row
  <2>2. ASSUME NEW k, NEW x, row' = [row EXCEPT ![k].said = x]
        PROVE  row'[j].state = row[j].state
      BY <1>0, <2>2 DEF Row
  <2>q. QED BY <1>1, <1>4, <2>1, <2>2 DEF LetGo, Return
<1>5. ASSUME NEW w \in Workers, PruneTerminalJobs(w)
      PROVE  StopReason(j)
    BY <1>0, <1>1, <1>5 DEF PruneTerminalJobs, Terminal
<1>6. ASSUME NEW w \in Workers, HeartbeatAnswered(w) \/ SuspendJob(w) \/ CompleteJob(w) \/ FailJob(w)
      PROVE  StopReason(j)
  <2>1. fence[w] # NoFence
      BY <1>6 DEF HeartbeatAnswered, SuspendJob, CompleteJob, FailJob, TypeInv, FenceKnown
  <2>2. PICK to \in Outcome : Leaves(w, to) /\ ApplyUpdate(UpdateOf(w, to))
    <3>1. CASE FailJob(w)
        BY <3>1 DEF FailJob, FailTo, Outcome, Leaves
    <3>2. CASE ~FailJob(w)
        BY <1>6, <3>2 DEF HeartbeatAnswered, SuspendJob, CompleteJob, Outcome, Leaves
    <3>q. QED BY <3>1, <3>2
  <2>3. UpdateOf(w, to) \in Update
      BY <2>1, UpdateOfType DEF TypeInv
  <2>q. QED BY <2>2, <2>3, LeavesJustified, ApplyStops
<1>7. ASSUME NEW u \in late, UpdateArrives(u)
      PROVE  StopReason(j)
  <2>1. u \in Update BY DEF TypeInv, TypeOK
  <2>2. FenceHolds(u) => Justified(u)
      BY DEF IInv, LateIsTrue, SuspendsAreCopies, Justified
  <2>q. QED BY <1>7, <2>1, <2>2, ApplyStops DEF UpdateArrives
<1>8. CASE CancelCas
    BY <1>0, <1>1, <1>8 DEF CancelCas, CancelFlag, CancelPending, Row
<1>9. ASSUME \/ UNCHANGED vars
             \/ \E w \in Workers : \/ ReclaimRead(w) \/ ReclaimFails(w) \/ ClaimReplies(w)
                                   \/ HeartbeatErrs(w) \/ HeartbeatDeadline(w) \/ FailRead(w)
             \/ \E u \in late : UpdateLost(u)
             \/ \E i \in Jobs : CancelBegins(i)
             \/ CancelReads \/ CancelErrs
      PROVE  StopReason(j)
    BY <1>1, <1>9 DEF vars, ReclaimRead, ReclaimFails, ClaimReplies, HeartbeatErrs,
       HeartbeatDeadline, FailRead, UpdateLost, CancelBegins, CancelReads, CancelErrs, queueVars
<1>10. ASSUME NEW w \in Workers, \/ HandlerOk(w) \/ HandlerErr(w) \/ SuspendFails(w)
                                 \/ ClaimGivesUp(w) \/ CompleteErrs(w) \/ FailIgnored(w)
                                 \/ FailErrs(w) \/ Crash(w)
       PROVE  StopReason(j)
    BY <1>4, <1>10 DEF HandlerOk, HandlerErr, SuspendFails, ClaimGivesUp, CompleteErrs,
       FailIgnored, FailErrs, Crash
<1>q. QED
    BY <1>2, <1>3, <1>5, <1>6, <1>7, <1>8, <1>9, <1>10, ReclaimStops
    DEF Next, WorkerStep, WorkerFault, Operator
-----------------------------------------------------------------------------
(* The parts of the invariant, each kept by every step. *)

\* Every step keeps fences, snapshots and updates behind their rows.
LEMMA NeverAheadStep ==
    ASSUME TypeInv, IInv, [Next]_vars
    PROVE  NeverAhead'
<1>0. NeverAhead BY DEF IInv
<1>a. /\ fence \in [Workers -> Fence \cup {NoFence}] /\ late \subseteq Update
      /\ seen \in [Workers -> SUBSET Snapshot]
    BY DEF TypeInv, TypeOK
<1>1. ASSUME NEW w \in Workers, fence'[w] # NoFence
      PROVE  (Gone(fence[w].job) \/ fence[w].gen <= row[fence[w].job].gen)'
  <2>1. CASE fence'[w] = fence[w]
    <3>1. fence[w].job \in Jobs /\ fence[w].gen \in Nat
        BY <1>1, <1>a, <2>1 DEF Fence
    <3>2. Gone(fence[w].job) \/ fence[w].gen <= row[fence[w].job].gen
        BY <1>0, <1>1, <2>1 DEF NeverAhead
    <3>q. QED BY <2>1, <3>1, <3>2, GenMoves DEF Row, Gone
  <2>2. ASSUME NEW j \in Jobs, fence'[w] = [job |-> j, gen |-> row[j].gen + 1], Taken(row[j], row'[j])
        PROVE  (Gone(fence[w].job) \/ fence[w].gen <= row[fence[w].job].gen)'
      BY <2>2, GenMoves DEF Taken, Row
  <2>q. QED BY <1>1, <2>1, <2>2, FenceMoves
<1>2. ASSUME NEW w \in Workers, NEW s \in seen'[w]
      PROVE  (Gone(s.job) \/ s.gen <= row[s.job].gen)'
  <2>1. CASE s \in seen[w]
    <3>1. s.job \in Jobs /\ s.gen \in Nat BY <1>a, <2>1 DEF Snapshot
    <3>2. Gone(s.job) \/ s.gen <= row[s.job].gen BY <1>0, <2>1 DEF NeverAhead
    <3>q. QED BY <3>1, <3>2, GenMoves DEF Row, Gone
  <2>2. ASSUME UNCHANGED row, NEW j \in Jobs, s = SnapshotOf(j)
        PROVE  (Gone(s.job) \/ s.gen <= row[s.job].gen)'
      BY <2>2, GenMoves DEF SnapshotOf, Row
  <2>q. QED BY <2>1, <2>2, SeenMoves
<1>3. ASSUME NEW u \in late'
      PROVE  (Gone(u.job) \/ u.gen <= row[u.job].gen)'
  <2>1. u.job \in Jobs /\ u.gen \in Nat
      BY TypeStep DEF TypeInv, TypeOK, Update
  <2>2. Gone(u.job) \/ u.gen <= row[u.job].gen
      BY <1>0, LateMoves DEF NeverAhead, UpdateOf
  <2>q. QED BY <2>1, <2>2, GenMoves DEF Row, Gone
<1>q. QED BY <1>1, <1>2, <1>3 DEF NeverAhead

\* A fence, snapshot or update that matches a running row after a step matched
\* it before: a new generation matches nothing older.
LEMMA StillHeld ==
    ASSUME TypeInv, [Next]_vars, NEW j \in Jobs, NEW g \in Nat,
           Gone(j) \/ g <= row[j].gen, row'[j].state = "running", row'[j].gen = g
    PROVE  /\ row[j].state = "running" /\ row[j].gen = g
           /\ row'[j].attempt = row[j].attempt /\ row'[j].owner = row[j].owner
           /\ row[j].cancel => row'[j].cancel
<1>1. row[j].gen \in Nat BY GenMoves DEF Row
<1>q. QED BY <1>1, GenMoves DEF Gone

\* Every step keeps the snapshots of fail_job and reclaim true.
LEMMA SnapshotsStep ==
    ASSUME TypeInv, IInv, [Next]_vars
    PROVE  SnapshotsHold'
<1>0. SnapshotsHold /\ NeverAhead BY DEF IInv
<1>a. /\ seen \in [Workers -> SUBSET Snapshot] /\ pc \in [Workers -> PCs]
      /\ fence \in [Workers -> Fence \cup {NoFence}]
    BY DEF TypeInv, TypeOK, PCs
<1>1. ASSUME NEW w \in Workers, NEW s \in seen'[w],
             row'[s.job].state = "running", row'[s.job].gen = s.gen
      PROVE  /\ s.final <=> row'[s.job].attempt >= MaxAttempts
             /\ s.cancel => row'[s.job].cancel
  <2>1. CASE s \in seen[w]
    <3>1. s.job \in Jobs /\ s.gen \in Nat BY <1>a, <2>1 DEF Snapshot
    <3>2. Gone(s.job) \/ s.gen <= row[s.job].gen BY <1>0, <2>1 DEF NeverAhead
    <3>3. /\ row[s.job].state = "running" /\ row[s.job].gen = s.gen
          /\ row'[s.job].attempt = row[s.job].attempt
          /\ row[s.job].cancel => row'[s.job].cancel
        BY <1>1, <3>1, <3>2, StillHeld
    <3>q. QED BY <1>0, <2>1, <3>3 DEF SnapshotsHold
  <2>2. ASSUME UNCHANGED row, NEW j \in Jobs, s = SnapshotOf(j)
        PROVE  /\ s.final <=> row'[s.job].attempt >= MaxAttempts
               /\ s.cancel => row'[s.job].cancel
    <3>1. s.job = j /\ (s.final <=> row[j].attempt >= MaxAttempts) /\ (s.cancel <=> row[j].cancel)
        BY <2>2 DEF SnapshotOf
    <3>q. QED BY <2>2, <3>1
  <2>q. QED BY <2>1, <2>2, SeenMoves
<1>2. ASSUME NEW w \in Workers, pc'[w] = "failcas"
      PROVE  \A s \in seen'[w] : s.job = fence'[w].job /\ s.gen = fence'[w].gen
  <2>1. CASE pc[w] = "failcas" /\ fence'[w] = fence[w] /\ seen'[w] = seen[w]
      BY <1>0, <2>1 DEF SnapshotsHold
  <2>2. CASE FailRead(w)
    <3>1. Holds(w) /\ seen'[w] = {SnapshotOf(fence[w].job)} /\ fence' = fence
        BY <1>a, <2>2 DEF FailRead
    <3>q. QED BY <3>1 DEF SnapshotOf, Holds, FenceHolds, UpdateOf
  <2>3. CASE UNCHANGED <<pc, fence, seen>>
      BY <1>2, <2>1, <2>3
  <2>4. ASSUME NEW v \in Workers, Leave(v)
        PROVE  pc[w] = "failcas" /\ fence'[w] = fence[w] /\ seen'[w] = seen[w]
      BY <1>2, <1>a, <2>4 DEF Leave
  <2>5. ASSUME NEW v \in Workers, WorkerStep(v), ~FailRead(v)
        PROVE  \/ pc[w] = "failcas" /\ fence'[w] = fence[w] /\ seen'[w] = seen[w]
               \/ UNCHANGED <<pc, fence, seen>>
    <3>1. CASE ReclaimRead(v) BY <1>2, <1>a, <3>1 DEF ReclaimRead
    <3>2. CASE ReclaimRow(v) BY <1>2, <1>a, <3>2 DEF ReclaimRow
    <3>3. CASE PruneTerminalJobs(v) BY <1>2, <1>a, <3>3 DEF PruneTerminalJobs
    <3>4. CASE ClaimRuns(v) BY <1>2, <1>a, <3>4 DEF ClaimRuns
    <3>5. CASE ClaimReplies(v) BY <1>2, <1>a, <3>5 DEF ClaimReplies
    <3>6. CASE HandlerOk(v) \/ HandlerErr(v) BY <1>2, <1>a, <3>6 DEF HandlerOk, HandlerErr
    <3>7. CASE SuspendJob(v) \/ CompleteJob(v) \/ FailIgnored(v) \/ FailJob(v)
        BY <2>4, <3>7 DEF SuspendJob, CompleteJob, FailIgnored, FailJob
    <3>q. QED BY <2>5, <3>1, <3>2, <3>3, <3>4, <3>5, <3>6, <3>7 DEF WorkerStep
  <2>6. ASSUME NEW v \in Workers, WorkerFault(v) \/ HeartbeatAnswered(v)
        PROVE  \/ pc[w] = "failcas" /\ fence'[w] = fence[w] /\ seen'[w] = seen[w]
               \/ UNCHANGED <<pc, fence, seen>>
    <3>1. CASE ReclaimFails(v) BY <1>2, <1>a, <3>1 DEF ReclaimFails
    <3>2. CASE ClaimArrivesLate(v) \/ HeartbeatErrs(v) \/ HeartbeatDeadline(v) \/ HeartbeatAnswered(v)
        BY <3>2 DEF ClaimArrivesLate, HeartbeatErrs, HeartbeatDeadline, HeartbeatAnswered, workerVars
    <3>3. CASE SuspendFails(v) BY <1>2, <1>a, <3>3 DEF SuspendFails
    <3>4. CASE ClaimGivesUp(v) \/ CompleteErrs(v) \/ FailErrs(v) \/ Crash(v)
        BY <2>4, <3>4 DEF ClaimGivesUp, CompleteErrs, FailErrs, Crash
    <3>q. QED BY <2>6, <3>1, <3>2, <3>3, <3>4 DEF WorkerFault
  <2>7. ASSUME \/ \E j \in Jobs : EnqueueJob(j) \/ RunAfterPasses(j) \/ LeaseLapses(j)
               \/ \E u \in late : UpdateArrives(u) \/ UpdateLost(u)
               \/ Operator \/ UNCHANGED vars
        PROVE  UNCHANGED <<pc, fence, seen>>
      BY <2>7 DEF EnqueueJob, RunAfterPasses, LeaseLapses, UpdateArrives, UpdateLost, Operator,
         CancelBegins, CancelReads, CancelCas, CancelErrs, workerVars, vars
  <2>8. ASSUME NEW v \in Workers, FailRead(v), v # w
        PROVE  pc[w] = "failcas" /\ fence'[w] = fence[w] /\ seen'[w] = seen[w]
      BY <1>2, <1>a, <2>8 DEF FailRead
  <2>q. QED BY <2>1, <2>2, <2>3, <2>5, <2>6, <2>7, <2>8 DEF Next
<1>q. QED BY <1>1, <1>2 DEF SnapshotsHold

\* Every step keeps suspension to plugin_copy rows of the local backend.
LEMMA SuspendsStep ==
    ASSUME TypeInv, IInv, [Next]_vars
    PROVE  SuspendsAreCopies'
<1>0. SuspendsAreCopies BY DEF IInv
<1>a. CopyJobs \subseteq Jobs BY FiniteJobs
<1>1. ASSUME NEW j \in Jobs, row'[j].resume
      PROVE  Backend = "local"
  <2>1. row[j] \in Row /\ row'[j] \in Row BY GenMoves
  <2>2. CASE row[j].resume BY <1>0, <2>2 DEF SuspendsAreCopies
  <2>3. CASE ~row[j].resume
    <3>1. ~EnqueueJob(j)
      <4>1. ASSUME EnqueueJob(j) PROVE row'[j] = [row[j] EXCEPT !.state = "pending", !.ready = TRUE]
          BY <4>1 DEF EnqueueJob, TypeInv, TypeOK
      <4>q. QED BY <1>1, <2>1, <2>3, <4>1 DEF Row
    <3>2. Stopped(row[j], row'[j]) /\ row[j].state = "running"
        BY <1>1, <2>3, <3>1, RowMoves DEF RowMove, Calm, Quiet, Stopped, Taken, Removed, NoRow
    <3>3. j \in CopyJobs
        BY <1>1, <2>3, <3>2, StopReasons DEF StopReason, Stopped, Terminal
    <3>q. QED BY <1>0, <3>2, <3>3, BackendAssumption DEF SuspendsAreCopies
  <2>q. QED BY <2>2, <2>3
<1>2. ASSUME NEW j \in CopyJobs, Backend = "plan"
      PROVE  row'[j].state # "running"
  <2>1. row[j].state # "running" BY <1>0, <1>2 DEF SuspendsAreCopies
  <2>2. CASE EnqueueJob(j) BY <1>a, <2>2 DEF EnqueueJob, TypeInv, TypeOK, Row
  <2>3. CASE RowMove(j)
      BY <1>2, <2>1, <2>3 DEF RowMove, Calm, Quiet, Stopped, Taken, Removed, NoRow, Terminal
  <2>q. QED BY <1>a, <2>2, <2>3, RowMoves
<1>3. ASSUME NEW u \in late', u.to = "suspended"
      PROVE  u.job \in CopyJobs /\ u.gen <= MaxSuspends
  <2>1. ASSUME NEW w \in Workers, NEW to \in Outcome, Leaves(w, to), u = UpdateOf(w, to)
        PROVE  u.job \in CopyJobs /\ u.gen <= MaxSuspends
    <3>1. u.job = fence[w].job /\ u.gen = fence[w].gen /\ to = "suspended"
        BY <1>3, <2>1 DEF UpdateOf
    <3>2. \A s : FailTo(s) # "suspended" BY DEF FailTo
    <3>q. QED BY <2>1, <3>1, <3>2 DEF Leaves
  <2>q. QED BY <1>0, <1>3, <2>1, LateMoves DEF SuspendsAreCopies
<1>q. QED BY <1>1, <1>2, <1>3 DEF SuspendsAreCopies

\* While a generation runs, its handler returns once.
LEMMA SaidOnce ==
    ASSUME TypeInv, IInv, [Next]_vars, NEW j \in Jobs,
           row[j].state = "running", row'[j].state = "running", row'[j].said # row[j].said
    PROVE  row[j].said = "no" /\ \E w \in Workers : Speaks(w, j)
<1>1. ~EnqueueJob(j) BY DEF EnqueueJob
<1>2. PICK w \in Workers : Speaks(w, j)
    BY <1>1, RowMoves DEF RowMove, Calm, Stopped, Taken, Removed, NoRow, Terminal
<1>3. row[j].said = "no"
    BY <1>2 DEF Speaks, IInv, SaidIsHeard
<1>q. QED BY <1>2, <1>3

\* Every step keeps the updates in flight justified.
LEMMA LateIsTrueStep ==
    ASSUME TypeInv, IInv, [Next]_vars
    PROVE  LateIsTrue'
<1> SUFFICES ASSUME NEW u \in late', FenceHolds(u)'
             PROVE  /\ u.to = "pending" => row'[u.job].attempt < MaxAttempts
                    /\ u.to = "failed" => row'[u.job].attempt >= MaxAttempts
                    /\ u.to = "cancelled" => row'[u.job].cancel
                    /\ u.to = "succeeded" => row'[u.job].said \in {"ok", "unfenced"}
                    /\ u.to \notin {"renew", "suspended"} => row'[u.job].said # "no"
    BY DEF LateIsTrue
<1> DEFINE j == u.job
<1>1. j \in Jobs /\ u.gen \in Nat
    BY TypeStep DEF TypeInv, TypeOK, Update
<1>2. Gone(j) \/ u.gen <= row[j].gen
    BY LateMoves DEF IInv, NeverAhead, UpdateOf
<1>3. /\ row[j].state = "running" /\ row[j].gen = u.gen
      /\ row'[j].state = "running"
      /\ row'[j].attempt = row[j].attempt /\ row'[j].owner = row[j].owner
      /\ row[j].cancel => row'[j].cancel
    BY <1>1, <1>2, StillHeld DEF FenceHolds
<1>4. FenceHolds(u)
    BY <1>3 DEF FenceHolds
<1>5. Justified(u)
  <2>1. CASE u \in late
      BY <1>4, <2>1 DEF IInv, LateIsTrue, SuspendsAreCopies, Justified
  <2>2. ASSUME NEW w \in Workers, NEW to \in Outcome, Leaves(w, to), u = UpdateOf(w, to)
        PROVE  Justified(u)
      BY <1>4, <2>2, LeavesJustified
  <2>q. QED BY <2>1, <2>2, LateMoves
<1>6. row[j].said # "no" => row'[j].said = row[j].said
    BY <1>1, <1>3, SaidOnce
<1>q. QED BY <1>3, <1>5, <1>6 DEF Justified

\* How a worker gets to where its handler has or has not returned.
LEMMA PcMoves ==
    ASSUME TypeInv, [Next]_vars, NEW w \in Workers,
           pc'[w] \in {"claimed", "run", "complete", "failing", "failcas"}
    PROVE  \/ pc'[w] = pc[w] /\ fence'[w] = fence[w]
           \/ pc'[w] = "claimed" /\ ClaimRuns(w)
           \/ pc[w] = "claimed" /\ pc'[w] = "run" /\ fence'[w] = fence[w]
           \/ /\ pc[w] = "run" /\ fence'[w] = fence[w]
              /\ HandlerOk(w) \/ HandlerErr(w) \/ SuspendFails(w)
           \/ pc[w] = "failing" /\ pc'[w] = "failcas" /\ fence'[w] = fence[w]
<1>a. /\ pc \in [Workers -> PCs] /\ fence \in [Workers -> Fence \cup {NoFence}]
    BY DEF TypeInv, TypeOK, PCs
<1> DEFINE Same == pc'[w] = pc[w] /\ fence'[w] = fence[w]
<1>1. ASSUME UNCHANGED <<pc, fence>> PROVE Same BY <1>1
<1>2. ASSUME NEW v \in Workers, Leave(v) PROVE Same
    BY <1>2, <1>a DEF Leave
<1>3. ASSUME NEW v \in Workers, v # w, \E x : pc' = [pc EXCEPT ![v] = x],
             UNCHANGED fence \/ \E x : fence' = [fence EXCEPT ![v] = x]
      PROVE  Same
    BY <1>3, <1>a
<1>4. ASSUME NEW v \in Workers, ReclaimRead(v) \/ PruneTerminalJobs(v)
      PROVE  Same
  <2>1. UNCHANGED fence /\ \E x \in {"reclaim", "claim"} : pc' = [pc EXCEPT ![v] = x]
      BY <1>4 DEF ReclaimRead, PruneTerminalJobs
  <2>2. v # w BY <2>1, <1>a
  <2>q. QED BY <1>3, <2>1, <2>2
<1>5. ASSUME NEW v \in Workers, ClaimRuns(v)
      PROVE  Same \/ (pc'[w] = "claimed" /\ ClaimRuns(w))
  <2>1. CASE v = w BY <1>5, <1>a, <2>1 DEF ClaimRuns
  <2>2. CASE v # w BY <1>3, <1>5, <2>2 DEF ClaimRuns
  <2>q. QED BY <2>1, <2>2
<1>6. ASSUME NEW v \in Workers, ClaimReplies(v)
      PROVE  Same \/ (pc[w] = "claimed" /\ pc'[w] = "run" /\ fence'[w] = fence[w])
  <2>1. CASE v = w BY <1>6, <1>a, <2>1 DEF ClaimReplies
  <2>2. CASE v # w BY <1>3, <1>6, <2>2 DEF ClaimReplies
  <2>q. QED BY <2>1, <2>2
<1>7. ASSUME NEW v \in Workers, HandlerOk(v) \/ HandlerErr(v) \/ SuspendFails(v)
      PROVE  Same \/ (v = w /\ pc[w] = "run" /\ fence'[w] = fence[w])
  <2>1. CASE v = w BY <1>7, <1>a, <2>1 DEF HandlerOk, HandlerErr, SuspendFails
  <2>2. CASE v # w BY <1>3, <1>7, <2>2 DEF HandlerOk, HandlerErr, SuspendFails
  <2>q. QED BY <2>1, <2>2
<1>8. ASSUME NEW v \in Workers, FailRead(v)
      PROVE  Same \/ (pc[w] = "failing" /\ pc'[w] = "failcas" /\ fence'[w] = fence[w])
  <2>1. CASE v = w BY <1>8, <1>a, <2>1 DEF FailRead
  <2>2. CASE v # w BY <1>3, <1>8, <2>2 DEF FailRead
  <2>q. QED BY <2>1, <2>2
<1>9. ASSUME NEW v \in Workers,
             \/ ReclaimRow(v) \/ ReclaimFails(v) \/ ClaimArrivesLate(v) \/ HeartbeatErrs(v)
             \/ HeartbeatDeadline(v) \/ HeartbeatAnswered(v)
      PROVE  UNCHANGED <<pc, fence>>
    BY <1>9 DEF ReclaimRow, ReclaimFails, ClaimArrivesLate, HeartbeatErrs, HeartbeatDeadline,
       HeartbeatAnswered, workerVars
<1>10. ASSUME NEW v \in Workers,
             \/ SuspendJob(v) \/ CompleteJob(v) \/ FailIgnored(v) \/ FailJob(v)
             \/ ClaimGivesUp(v) \/ CompleteErrs(v) \/ FailErrs(v) \/ Crash(v)
      PROVE  Leave(v)
    BY <1>10 DEF SuspendJob, CompleteJob, FailIgnored, FailJob, ClaimGivesUp, CompleteErrs,
       FailErrs, Crash
<1>11. ASSUME \/ \E j \in Jobs : EnqueueJob(j) \/ RunAfterPasses(j) \/ LeaseLapses(j)
              \/ \E u \in late : UpdateArrives(u) \/ UpdateLost(u)
              \/ Operator \/ UNCHANGED vars
       PROVE  UNCHANGED <<pc, fence>>
    BY <1>11 DEF EnqueueJob, RunAfterPasses, LeaseLapses, UpdateArrives, UpdateLost, Operator,
       CancelBegins, CancelReads, CancelCas, CancelErrs, workerVars, vars
<1> HIDE DEF Same
<1>12. ASSUME NEW v \in Workers, WorkerStep(v) \/ WorkerFault(v) \/ HeartbeatAnswered(v)
       PROVE  \/ Same
              \/ pc'[w] = "claimed" /\ ClaimRuns(w)
              \/ pc[w] = "claimed" /\ pc'[w] = "run" /\ fence'[w] = fence[w]
              \/ /\ pc[w] = "run" /\ fence'[w] = fence[w]
                 /\ HandlerOk(w) \/ HandlerErr(w) \/ SuspendFails(w)
              \/ pc[w] = "failing" /\ pc'[w] = "failcas" /\ fence'[w] = fence[w]
    BY <1>1, <1>2, <1>4, <1>5, <1>6, <1>7, <1>8, <1>9, <1>10, <1>12 DEF WorkerStep, WorkerFault
<1>q. QED BY <1>1, <1>11, <1>12 DEF Next, Same

\* Every step keeps what the handler said known to the fenced worker.
LEMMA SaidStep ==
    ASSUME TypeInv, IInv, [Next]_vars
    PROVE  SaidIsHeard'
<1>0. SaidIsHeard /\ NeverAhead BY DEF IInv
<1>a. /\ pc \in [Workers -> PCs] /\ fence \in [Workers -> Fence \cup {NoFence}]
      /\ row \in [Jobs -> Row]
    BY DEF TypeInv, TypeOK, PCs
<1>1. ASSUME NEW j \in Jobs, row'[j].state # "running"
      PROVE  row'[j].said = "no"
  <2>1. row[j].state # "running" => row[j].said = "no"
      BY <1>0 DEF SaidIsHeard
  <2>2. CASE EnqueueJob(j)
    <3>1. row[j].state = "absent" /\ row'[j] = [row[j] EXCEPT !.state = "pending", !.ready = TRUE]
        BY <1>a, <2>2 DEF EnqueueJob
    <3>q. QED BY <1>a, <2>1, <3>1 DEF Row
  <2>3. CASE RowMove(j)
      BY <1>1, <2>1, <2>3 DEF RowMove, Calm, Quiet, Stopped, Taken, Removed, NoRow
  <2>q. QED BY <2>2, <2>3, RowMoves
<1>2. ASSUME NEW w \in Workers, Fenced(w)',
             pc'[w] \in {"claimed", "run", "complete", "failing", "failcas"}
      PROVE  LET said == row'[fence'[w].job].said
             IN  /\ pc'[w] \in {"claimed", "run"} => said = "no"
                 /\ pc'[w] = "complete" => said \in {"ok", "unfenced"}
                 /\ pc'[w] \in {"failing", "failcas"} => said = "err"
  <2> DEFINE j == fence'[w].job
  <2>1. /\ fence'[w] # NoFence /\ row'[j].state = "running" /\ row'[j].owner = w
        /\ row'[j].gen = fence'[w].gen
      BY <1>2 DEF Fenced, Holds, FenceHolds, UpdateOf
  <2>2. CASE pc'[w] = "claimed" /\ ClaimRuns(w)
    <3>1. PICK i \in Jobs \cup {NoJob} : /\ ClaimNextJob(w, i, FALSE)
                                        /\ fence' = [fence EXCEPT ![w] = FenceOf(i)]
        BY <2>2 DEF ClaimRuns
    <3>2. i \in Jobs /\ j = i /\ FALSE \in BOOLEAN
        BY <1>a, <2>1, <3>1 DEF FenceOf
    <3>3. Taken(row[j], row'[j])
        BY <3>1, <3>2, ClaimTakes
    <3>4. row'[j].said = "no"
        BY <1>0, <3>2, <3>3 DEF Taken, SaidIsHeard
    <3>q. QED BY <2>2, <3>4
  <2>3. CASE fence'[w] = fence[w]
    <3>1. j \in Jobs /\ fence[w].gen \in Nat
        BY <1>a, <2>1, <2>3 DEF Fence
    <3>2. row[j].state = "running" /\ row[j].gen = fence[w].gen /\ row[j].owner = w
        BY <1>0, <2>1, <2>3, <3>1, StillHeld DEF NeverAhead
    <3>3. Fenced(w) /\ Holds(w)
        BY <2>1, <2>3, <3>2 DEF Fenced, Holds, FenceHolds, UpdateOf
    <3>4. CASE row'[j].said = row[j].said
      <4>1. ~(HandlerOk(w) \/ HandlerErr(w) \/ SuspendFails(w))
        <5>1. ASSUME HandlerOk(w) \/ HandlerErr(w) \/ SuspendFails(w) PROVE FALSE
          <6>1. pc[w] = "run" /\ \E x \in {"ok", "unfenced", "err"} : Return(w, x)
              BY <5>1 DEF HandlerOk, HandlerErr, SuspendFails
          <6>2. PICK x \in {"ok", "unfenced", "err"} : row' = [row EXCEPT ![j].said = x]
              BY <2>3, <3>3, <6>1 DEF Return
          <6>3. row'[j].said = x BY <1>a, <3>1, <6>2 DEF Row
          <6>4. row[j].said = "no" BY <1>0, <2>3, <3>3, <6>1 DEF SaidIsHeard
          <6>q. QED BY <3>4, <6>3, <6>4
        <5>q. QED BY <5>1
      <4>2. \/ pc'[w] = pc[w]
            \/ pc[w] = "claimed" /\ pc'[w] = "run"
            \/ pc[w] = "failing" /\ pc'[w] = "failcas"
            \/ pc'[w] = "claimed" /\ ClaimRuns(w)
          BY <1>2, <4>1, PcMoves
      <4>q. QED BY <1>0, <1>2, <2>2, <2>3, <3>3, <3>4, <4>2 DEF SaidIsHeard
    <3>5. CASE row'[j].said # row[j].said
      <4>1. PICK v \in Workers : Speaks(v, j)
          BY <2>1, <3>1, <3>2, <3>5, SaidOnce
      <4>2. v = w
          BY <3>2, <4>1 DEF Speaks, Fenced, Holds, FenceHolds, UpdateOf
      <4>q. QED BY <4>1, <4>2 DEF Speaks
    <3>q. QED BY <3>4, <3>5
  <2>q. QED BY <1>2, <2>2, <2>3, PcMoves
<1>q. QED BY <1>1, <1>2 DEF SaidIsHeard

\* Every step keeps the rows of a reclaim pass past their lease.
LEMMA DueStep ==
    ASSUME TypeInv, IInv, [Next]_vars
    PROVE  DueIsPast'
<1> SUFFICES ASSUME NEW w \in Workers, NEW j \in due'[w], row'[j].state = "running"
             PROVE  row'[j].lease # "live"
    BY DEF DueIsPast
<1>1. j \in Jobs BY TypeStep DEF TypeInv, TypeOK
<1>2. CASE j \in due[w]
  <2>1. row[j].state = "running" => row[j].lease # "live"
      BY <1>2 DEF IInv, DueIsPast
  <2>2. ~EnqueueJob(j)
      BY <1>1 DEF EnqueueJob, TypeInv, TypeOK, Row
  <2>3. ~Renewed(j)
      BY DEF Renewed
  <2>q. QED
      BY <1>1, <2>1, <2>2, <2>3, RowMoves
      DEF RowMove, Calm, Quiet, Stopped, Removed, NoRow, Terminal, Speaks
<1>3. CASE UNCHANGED row /\ row[j].lease # "live"
    BY <1>3
<1>q. QED BY <1>2, <1>3, DueMoves

\* Every step keeps rows that were not admitted blank.
LEMMA BlankStep ==
    ASSUME TypeInv, IInv, [Next]_vars
    PROVE  BlankUntilAdmitted'
<1> SUFFICES ASSUME NEW j \in Jobs, row'[j].state = "absent"
             PROVE  row'[j] = NoRow
    BY DEF BlankUntilAdmitted
<1>1. ~EnqueueJob(j)
    BY ZenonT(60) DEF EnqueueJob, TypeInv, TypeOK, Row
<1>2. row'[j] = row[j]
    BY <1>1, RowMoves
    DEF RowMove, Calm, Quiet, Stopped, Taken, Removed, NoRow, Terminal, Active
<1>q. QED BY <1>2 DEF IInv, BlankUntilAdmitted

\* Every step keeps the attempts within max_attempts.
LEMMA AttemptsStep ==
    ASSUME TypeInv, IInv, [Next]_vars
    PROVE  AttemptsBounded'
<1> SUFFICES ASSUME NEW j \in Jobs
             PROVE  /\ row'[j].attempt <= MaxAttempts
                    /\ row'[j].state = "pending" /\ ~row'[j].resume => row'[j].attempt < MaxAttempts
    BY DEF AttemptsBounded
<1>0. /\ row[j] \in Row /\ row[j].attempt \in Nat /\ row[j].attempt <= MaxAttempts
      /\ row[j].state = "pending" /\ ~row[j].resume => row[j].attempt < MaxAttempts
    BY DEF TypeInv, TypeOK, Row, IInv, AttemptsBounded
<1>1. CASE EnqueueJob(j)
  <2>1. row[j] = NoRow /\ row'[j] = [row[j] EXCEPT !.state = "pending", !.ready = TRUE]
      BY <1>1 DEF EnqueueJob, TypeInv, TypeOK, IInv, BlankUntilAdmitted
  <2>2. row'[j].attempt = 0 BY <2>1 DEF NoRow
  <2>q. QED BY <2>2, LimitAssumption
<1>2. CASE Quiet(row[j], row'[j])
    BY <1>0, <1>2 DEF Quiet
<1>3. CASE Stopped(row[j], row'[j])
    BY <1>0, <1>3, StopReasons DEF Stopped, StopReason, Terminal
<1>4. CASE Taken(row[j], row'[j])
  <2>1. Backend = "plan" => ~row[j].resume
      BY DEF IInv, SuspendsAreCopies
  <2>q. QED BY <1>0, <1>4, <2>1, LimitAssumption DEF Taken
<1>5. CASE Removed(row[j], row'[j])
    BY <1>5, LimitAssumption DEF Removed, NoRow
<1>q. QED BY <1>1, <1>2, <1>3, <1>4, <1>5, RowMoves DEF RowMove, Calm

\* Every step keeps a running or suspended row on an attempt it began.
LEMMA TriedStep ==
    ASSUME TypeInv, IInv, [Next]_vars
    PROVE  TriedOnce'
<1> SUFFICES ASSUME NEW j \in Jobs, row'[j].state = "running" \/ row'[j].resume
             PROVE  row'[j].attempt >= 1
    BY DEF TriedOnce
<1>0. /\ row[j] \in Row /\ row[j].attempt \in Nat
      /\ row[j].state = "running" \/ row[j].resume => row[j].attempt >= 1
    BY DEF TypeInv, TypeOK, Row, IInv, TriedOnce
<1>1. CASE EnqueueJob(j)
  <2>1. row'[j] = [row[j] EXCEPT !.state = "pending", !.ready = TRUE]
      BY <1>1 DEF EnqueueJob, TypeInv, TypeOK
  <2>2. /\ row'[j].state = "pending" /\ row'[j].attempt = row[j].attempt
        /\ row'[j].resume <=> row[j].resume
      BY <1>0, <2>1 DEF Row
  <2>q. QED BY <1>0, <2>2
<1>2. CASE Quiet(row[j], row'[j])
    BY <1>0, <1>2 DEF Quiet
<1>3. CASE Stopped(row[j], row'[j])
    BY <1>0, <1>3 DEF Stopped, Terminal
<1>4. CASE Taken(row[j], row'[j])
    BY <1>0, <1>4 DEF Taken
<1>5. CASE Removed(row[j], row'[j])
    BY <1>5 DEF Removed, NoRow
<1>q. QED BY <1>1, <1>2, <1>3, <1>4, <1>5, RowMoves DEF RowMove, Calm
-----------------------------------------------------------------------------
(* Who follows a running row. *)

Following == {"claimed", "run", "complete", "failing", "failcas"}
Follows(w, j) == /\ pc[w] \in Following
                 /\ fence[w] = [job |-> j, gen |-> row[j].gen]
                 /\ row[j].owner = w

\* A row that runs after a step ran before it, let go of or not.
StaysRunning(j) == row'[j].state = "running" =>
                       row[j].state = "running" /\ (row[j].left => row'[j].left)

\* The fenced update that each of these steps of a worker applies.
LEMMA OwnUpdate ==
    ASSUME TypeInv, NEW w \in Workers,
           HeartbeatAnswered(w) \/ SuspendJob(w) \/ CompleteJob(w) \/ FailJob(w)
    PROVE  \E to \in Outcome : /\ ApplyUpdate(UpdateOf(w, to)) /\ UpdateOf(w, to) \in Update
                               /\ to = "renew" => HeartbeatAnswered(w)
<1>1. fence[w] # NoFence
    BY DEF HeartbeatAnswered, SuspendJob, CompleteJob, FailJob, TypeInv, FenceKnown
<1>2. \A to \in Outcome : UpdateOf(w, to) \in Update
    BY <1>1, UpdateOfType DEF TypeInv
<1>3. CASE FailJob(w)
  <2>1. \A s : FailTo(s) \in Outcome /\ FailTo(s) # "renew" BY DEF FailTo, Outcome
  <2>q. QED BY <1>2, <1>3, <2>1 DEF FailJob
<1>4. CASE ~FailJob(w)
  <2>1. {"renew", "suspended", "succeeded"} \subseteq Outcome BY DEF Outcome
  <2>q. QED BY <1>2, <1>4, <2>1 DEF HeartbeatAnswered, SuspendJob, CompleteJob
<1>q. QED BY <1>3, <1>4

\* A fenced update starts no row and takes back no "let go".
LEMMA ApplyStarts ==
    ASSUME TypeInv, NEW u \in Update, ApplyUpdate(u), NEW j \in Jobs
    PROVE  /\ StaysRunning(j)
           /\ FenceHolds(u) /\ u.job = j /\ u.to # "renew" => row'[j].state # "running"
<1>0. row \in [Jobs -> Row] /\ u.job \in Jobs /\ u.to \in Outcome
    BY DEF TypeInv, TypeOK, Update
<1>1. CASE row' = row
  <2>1. ~FenceHolds(u) \/ row[u.job] = Written(row[u.job], u.to)
      BY <1>0, <1>1 DEF ApplyUpdate
  <2>2. ASSUME u.to # "renew" PROVE Written(row[u.job], u.to).state # "running"
      BY <1>0, <2>2 DEF Written, Released, Row, Outcome
  <2>q. QED BY <1>1, <2>1, <2>2 DEF StaysRunning
<1>2. CASE FenceHolds(u) /\ row' = [row EXCEPT ![u.job] = Written(row[u.job], u.to)]
  <2>1. CASE j = u.job
    <3>1. row[j].state = "running" /\ row'[j] = Written(row[j], u.to) /\ row[j] \in Row
        BY <1>0, <1>2, <2>1 DEF FenceHolds
    <3>2. CASE u.to = "renew"
        BY <3>1, <3>2 DEF Written, Row, StaysRunning
    <3>3. CASE u.to # "renew"
        BY <1>0, <3>1, <3>3 DEF Written, Released, Row, Outcome, StaysRunning
    <3>q. QED BY <3>2, <3>3
  <2>2. CASE j # u.job
      BY <1>0, <1>2, <2>2 DEF StaysRunning
  <2>q. QED BY <2>1, <2>2
<1>q. QED BY <1>1, <1>2 DEF ApplyUpdate

\* The history a worker leaves on its row starts no row either.
LEMMA HistoryStarts ==
    ASSUME TypeInv, NEW w \in Workers, NEW j \in Jobs,
           LetGo(w) \/ (fence[w] # NoFence /\ \E x : Return(w, x))
    PROVE  StaysRunning(j)
<1>0. row \in [Jobs -> Row] /\ fence[w] \in Fence \cup {NoFence}
    BY DEF TypeInv, TypeOK
<1>1. CASE UNCHANGED row
    BY <1>1 DEF StaysRunning
<1>2. CASE row' # row
  <2>1. fence[w].job \in Jobs
      BY <1>0, <1>2 DEF LetGo, Fence
  <2>2. CASE row' = [row EXCEPT ![fence[w].job] = [row[fence[w].job] EXCEPT !.left = TRUE]]
      BY <1>0, <2>1, <2>2 DEF StaysRunning, Row
  <2>3. ASSUME NEW x, row' = [row EXCEPT ![fence[w].job] = [row[fence[w].job] EXCEPT !.said = x]]
        PROVE  StaysRunning(j)
      BY <1>0, <2>1, <2>3 DEF StaysRunning, Row
  <2>q. QED BY <1>2, <2>2, <2>3 DEF LetGo, Return
<1>q. QED BY <1>1, <1>2

\* A claim starts only the row it names, for the worker that made it.
LEMMA ClaimStarts ==
    ASSUME TypeInv, NEW w \in Workers, NEW i \in Jobs \cup {NoJob}, NEW left \in BOOLEAN,
           ClaimNextJob(w, i, left), NEW j \in Jobs
    PROVE  \/ StaysRunning(j)
           \/ /\ i = j /\ row'[j].owner = w /\ row'[j].left = left
              /\ row'[j].gen = row[j].gen + 1
<1>0. row[j] \in Row
    BY DEF TypeInv, TypeOK
<1>1. CASE row'[j] = row[j]
    BY <1>1 DEF StaysRunning
<1>2. CASE row'[j].state # "running"
    BY <1>2 DEF StaysRunning
<1>3. CASE ClaimLocal(w, i, left)
  <2>1. \/ row'[j] = [row[j] EXCEPT !.state = "cancelled"]
        \/ i = j /\ row'[j] = ClaimedLocal(row[j], w, left)
        \/ row'[j] = row[j]
      BY <1>3, Zenon DEF ClaimLocal
  <2>q. QED BY <1>0, <1>1, <1>2, <2>1 DEF ClaimedLocal, Row
<1>4. CASE ClaimPlan(w, i, left)
  <2>1. \/ row'[j] = Released(row[j], "failed")
        \/ i = j /\ row'[j] = ClaimedPlan(row[j], w, left)
        \/ row'[j] = row[j]
      BY <1>4, Zenon DEF ClaimPlan
  <2>q. QED BY <1>0, <1>1, <1>2, <2>1 DEF ClaimedPlan, Released, Row
<1>q. QED BY <1>3, <1>4 DEF ClaimNextJob

\* What the queue, its timers, the reclaim pass and the operator do starts no row.
LEMMA OtherStarts ==
    ASSUME TypeInv, NEW j \in Jobs,
           \/ \E i \in Jobs : EnqueueJob(i) \/ RunAfterPasses(i) \/ LeaseLapses(i)
           \/ \E w \in Workers : ReclaimRow(w) \/ PruneTerminalJobs(w)
           \/ CancelCas
    PROVE  StaysRunning(j)
<1>0. row \in [Jobs -> Row] /\ row[j] \in Row
    BY DEF TypeInv, TypeOK
<1>1. ASSUME NEW i \in Jobs, EnqueueJob(i) \/ RunAfterPasses(i) \/ LeaseLapses(i)
      PROVE  StaysRunning(j)
  <2>1. \/ row'[j] = row[j]
        \/ row'[j] = [row[j] EXCEPT !.state = "pending", !.ready = TRUE]
        \/ row'[j] = [row[j] EXCEPT !.ready = TRUE] /\ row[j].state = "pending"
        \/ row'[j] = [row[j] EXCEPT !.lease = "past"] /\ row[j].state = "running"
      BY <1>0, <1>1 DEF EnqueueJob, RunAfterPasses, LeaseLapses
  <2>q. QED BY <1>0, <2>1 DEF StaysRunning, Row
<1>2. ASSUME NEW w \in Workers, ReclaimRow(w)
      PROVE  StaysRunning(j)
  <2>1. PICK s \in seen[w] : row' = IF ReclaimHolds(w, s)
                  THEN [row EXCEPT ![s.job] = Reclaimed(@, ReclaimTo(s))] ELSE row
      BY <1>2 DEF ReclaimRow
  <2>2. row'[j] = row[j] \/ row'[j] = Reclaimed(row[j], ReclaimTo(s))
      BY <1>0, <2>1
  <2>3. ReclaimTo(s) # "running" /\ ReclaimTo(s) \in States
      BY DEF ReclaimTo, States, Active, Terminal
  <2>4. Reclaimed(row[j], ReclaimTo(s)).state = ReclaimTo(s)
      BY <1>0, <2>3 DEF Reclaimed, Released, Row
  <2>q. QED BY <2>2, <2>3, <2>4 DEF StaysRunning
<1>3. ASSUME NEW w \in Workers, PruneTerminalJobs(w)
      PROVE  StaysRunning(j)
  <2>1. row'[j] = row[j] \/ row'[j] = [NoRow EXCEPT !.state = "pruned"]
      BY <1>3 DEF PruneTerminalJobs
  <2>q. QED BY <2>1 DEF StaysRunning, NoRow
<1>4. ASSUME CancelCas
      PROVE  StaysRunning(j)
  <2>1. \/ row'[j] = row[j]
        \/ row'[j] = CancelPending(row[j])
        \/ row[j].state = "running" /\ row'[j] = CancelFlag(row[j])
      BY <1>0, <1>4 DEF CancelCas
  <2>q. QED BY <1>0, <2>1 DEF CancelPending, CancelFlag, Released, Row, StaysRunning
<1>q. QED BY <1>1, <1>2, <1>3, <1>4

\* A row that starts running is followed from then on, or was claimed by a
\* request that its worker no longer waits for.
LEMMA Starts ==
    ASSUME TypeInv, [Next]_vars, NEW j \in Jobs
    PROVE  \/ StaysRunning(j)
           \/ row'[j].left
           \/ \E w \in Workers : Follows(w, j)'
<1>0. fence \in [Workers -> Fence \cup {NoFence}] /\ pc \in [Workers -> PCs]
    BY DEF TypeInv, TypeOK, PCs
<1>1. CASE UNCHANGED row
    BY <1>1 DEF StaysRunning
<1>2. CASE \/ \E i \in Jobs : EnqueueJob(i) \/ RunAfterPasses(i) \/ LeaseLapses(i)
           \/ \E w \in Workers : ReclaimRow(w) \/ PruneTerminalJobs(w)
           \/ CancelCas
    BY <1>2, OtherStarts
<1>3. ASSUME NEW w \in Workers, ClaimRuns(w)
      PROVE  StaysRunning(j) \/ Follows(w, j)'
  <2>1. PICK i \in Jobs \cup {NoJob} : /\ ClaimNextJob(w, i, FALSE)
                                      /\ fence' = [fence EXCEPT ![w] = FenceOf(i)]
      BY <1>3 DEF ClaimRuns
  <2>2. pc'[w] = "claimed" /\ fence'[w] = FenceOf(i)
      BY <1>0, <1>3, <2>1 DEF ClaimRuns
  <2>3. CASE i = j /\ row'[j].owner = w /\ row'[j].gen = row[j].gen + 1
    <3>1. fence'[w] = [job |-> j, gen |-> row'[j].gen]
        BY <2>2, <2>3, IdAssumption DEF FenceOf
    <3>q. QED BY <2>2, <2>3, <3>1 DEF Follows, Following
  <2>q. QED BY <2>1, <2>3, ClaimStarts
<1>4. ASSUME NEW w \in Workers, ClaimArrivesLate(w)
      PROVE  StaysRunning(j) \/ row'[j].left
    BY <1>4, ClaimStarts DEF ClaimArrivesLate
<1>5. ASSUME NEW w \in Workers,
             \/ HandlerOk(w) \/ HandlerErr(w) \/ SuspendFails(w) \/ ClaimGivesUp(w)
             \/ CompleteErrs(w) \/ FailIgnored(w) \/ FailErrs(w) \/ Crash(w)
      PROVE  StaysRunning(j)
    BY <1>5, HistoryStarts
    DEF ClaimGivesUp, CompleteErrs, FailIgnored, FailErrs, Crash, HandlerOk, HandlerErr,
        SuspendFails, TypeInv, FenceKnown
<1>6. ASSUME NEW w \in Workers, HeartbeatAnswered(w) \/ SuspendJob(w) \/ CompleteJob(w) \/ FailJob(w)
      PROVE  StaysRunning(j)
    BY <1>6, OwnUpdate, ApplyStarts
<1>7. ASSUME NEW u \in late, UpdateArrives(u)
      PROVE  StaysRunning(j)
  <2>1. u \in Update BY DEF TypeInv, TypeOK
  <2>q. QED BY <1>7, <2>1, ApplyStarts DEF UpdateArrives
<1>8. ASSUME NEW w \in Workers, ReclaimRead(w) \/ ReclaimFails(w) \/ ClaimReplies(w)
                               \/ HeartbeatErrs(w) \/ HeartbeatDeadline(w) \/ FailRead(w)
      PROVE  UNCHANGED row
    BY <1>8 DEF ReclaimRead, ReclaimFails, ClaimReplies, HeartbeatErrs, HeartbeatDeadline,
                FailRead, queueVars
<1>9. ASSUME \/ \E u \in late : UpdateLost(u)
             \/ \E i \in Jobs : CancelBegins(i)
             \/ CancelReads \/ CancelErrs
      PROVE  UNCHANGED row
    BY <1>9 DEF UpdateLost, CancelBegins, CancelReads, CancelErrs, queueVars
<1>q. QED
    BY <1>1, <1>2, <1>3, <1>4, <1>5, <1>6, <1>7, <1>8, <1>9
    DEF Next, vars, WorkerStep, WorkerFault, Operator

\* The worker that follows a row goes on following it while the row runs, or
\* lets go of it.
LEMMA FollowerStays ==
    ASSUME TypeInv, [Next]_vars, NEW j \in Jobs, NEW w \in Workers, Follows(w, j),
           row[j].state = "running", row'[j].state = "running"
    PROVE  \/ pc'[w] \in Following /\ fence'[w] = fence[w]
           \/ row'[j].left
<1>0. /\ fence \in [Workers -> Fence \cup {NoFence}] /\ pc \in [Workers -> PCs]
      /\ row \in [Jobs -> Row] /\ row[j].gen \in Nat
    BY DEF TypeInv, TypeOK, PCs, Row
<1>1. fence[w].job = j /\ fence[w] # NoFence /\ Holds(w) /\ pc[w] \notin {"top", "reclaim", "claim"}
    BY IdAssumption DEF Follows, Following, NoFence, Holds, FenceHolds, UpdateOf
<1> DEFINE Stays == pc'[w] \in Following /\ fence'[w] = fence[w]
<1>2. ASSUME UNCHANGED <<pc, fence>> PROVE Stays
    BY <1>2 DEF Follows
<1>3. ASSUME NEW v \in Workers, v # w, \E x : pc' = [pc EXCEPT ![v] = x],
             UNCHANGED fence \/ \E x : fence' = [fence EXCEPT ![v] = x]
      PROVE  Stays
    BY <1>0, <1>3 DEF Follows
<1>4. ASSUME NEW v \in Workers, ReclaimRead(v) \/ PruneTerminalJobs(v) \/ ClaimRuns(v)
      PROVE  Stays
  <2>1. v # w BY <1>1, <1>4 DEF ReclaimRead, PruneTerminalJobs, ClaimRuns
  <2>q. QED BY <1>3, <1>4, <2>1 DEF ReclaimRead, PruneTerminalJobs, ClaimRuns
<1>5. ASSUME NEW v \in Workers, \/ ClaimReplies(v) \/ HandlerOk(v) \/ HandlerErr(v)
                                \/ SuspendFails(v) \/ FailRead(v)
      PROVE  Stays
  <2>1. CASE v # w
      BY <1>3, <1>5, <2>1 DEF ClaimReplies, HandlerOk, HandlerErr, SuspendFails, FailRead
  <2>2. CASE v = w
      BY <1>0, <1>1, <1>5, <2>2
      DEF ClaimReplies, HandlerOk, HandlerErr, SuspendFails, FailRead, Following
  <2>q. QED BY <2>1, <2>2
<1>6. ASSUME NEW v \in Workers, Leave(v), LetGo(v)
      PROVE  Stays \/ row'[j].left
  <2>1. CASE v # w BY <1>3, <1>6, <2>1 DEF Leave
  <2>2. CASE v = w
    <3>1. row' = [row EXCEPT ![j] = [row[j] EXCEPT !.left = TRUE]]
        BY <1>1, <1>6, <2>2 DEF LetGo
    <3>q. QED BY <1>0, <3>1 DEF Row
  <2>q. QED BY <2>1, <2>2
<1>7. ASSUME NEW v \in Workers, SuspendJob(v) \/ CompleteJob(v) \/ FailJob(v)
      PROVE  Stays
  <2>1. CASE v # w BY <1>3, <1>7, <2>1 DEF Leave, SuspendJob, CompleteJob, FailJob
  <2>2. CASE v = w
    <3>1. PICK to \in Outcome : ApplyUpdate(UpdateOf(w, to)) /\ (to = "renew" => HeartbeatAnswered(w))
        BY <1>7, <2>2, OwnUpdate
    <3>2. UpdateOf(w, to) \in Update /\ FenceHolds(UpdateOf(w, to)) /\ UpdateOf(w, to).job = j
        BY <1>1, UpdateOfType DEF TypeInv, Holds, FenceHolds, UpdateOf
    <3>3. to = "renew" BY <3>1, <3>2, ApplyStarts DEF UpdateOf
    <3>q. QED BY <1>2, <3>1, <3>3 DEF HeartbeatAnswered
  <2>q. QED BY <2>1, <2>2
<1>8. ASSUME NEW v \in Workers,
             \/ ReclaimRow(v) \/ ReclaimFails(v) \/ ClaimArrivesLate(v) \/ HeartbeatErrs(v)
             \/ HeartbeatDeadline(v) \/ HeartbeatAnswered(v)
      PROVE  UNCHANGED <<pc, fence>>
    BY <1>8 DEF ReclaimRow, ReclaimFails, ClaimArrivesLate, HeartbeatErrs, HeartbeatDeadline,
       HeartbeatAnswered, workerVars
<1>9. ASSUME NEW v \in Workers, \/ FailIgnored(v) \/ ClaimGivesUp(v) \/ CompleteErrs(v)
                                \/ FailErrs(v) \/ Crash(v)
      PROVE  Leave(v) /\ LetGo(v)
    BY <1>9 DEF FailIgnored, ClaimGivesUp, CompleteErrs, FailErrs, Crash
<1>10. ASSUME \/ \E i \in Jobs : EnqueueJob(i) \/ RunAfterPasses(i) \/ LeaseLapses(i)
              \/ \E u \in late : UpdateArrives(u) \/ UpdateLost(u)
              \/ Operator \/ UNCHANGED vars
       PROVE  UNCHANGED <<pc, fence>>
    BY <1>10 DEF EnqueueJob, RunAfterPasses, LeaseLapses, UpdateArrives, UpdateLost, Operator,
       CancelBegins, CancelReads, CancelCas, CancelErrs, workerVars, vars
<1> HIDE DEF Stays
<1>11. ASSUME NEW v \in Workers, WorkerStep(v) \/ WorkerFault(v) \/ HeartbeatAnswered(v)
       PROVE  Stays \/ row'[j].left
    BY <1>2, <1>4, <1>5, <1>6, <1>7, <1>8, <1>9, <1>11 DEF WorkerStep, WorkerFault
<1>q. QED BY <1>2, <1>10, <1>11 DEF Next, Stays

\* Every step keeps every running row followed or let go of.
LEMMA FollowedStep ==
    ASSUME TypeInv, IInv, [Next]_vars
    PROVE  RunningIsFollowed'
<1> SUFFICES ASSUME NEW j \in Jobs, row'[j].state = "running"
             PROVE  row'[j].left \/ \E w \in Workers : Follows(w, j)'
    BY DEF RunningIsFollowed, Follows, Following
<1>1. CASE row[j].state # "running"
    BY <1>1, Starts DEF StaysRunning
<1>2. CASE row[j].state = "running" /\ row[j].left
    BY <1>2, Starts DEF StaysRunning
<1>3. CASE row[j].state = "running" /\ ~row[j].left
  <2>1. PICK w \in Workers : Follows(w, j)
      BY <1>3 DEF IInv, RunningIsFollowed, Follows, Following
  <2>2. row'[j].gen = row[j].gen /\ row'[j].owner = row[j].owner
      BY <1>3, GenMoves
  <2>3. CASE pc'[w] \in Following /\ fence'[w] = fence[w]
      BY <2>1, <2>2, <2>3 DEF Follows
  <2>q. QED BY <1>3, <2>1, <2>3, FollowerStays
<1>q. QED BY <1>1, <1>2, <1>3
-----------------------------------------------------------------------------
(* What a cancel request loses its rounds to. *)

\* Every step keeps generations and attempts together.
LEMMA ClaimsStep ==
    ASSUME TypeInv, IInv, [Next]_vars
    PROVE  ClaimsCounted'
<1> SUFFICES ASSUME NEW j \in Jobs
             PROVE  /\ row'[j].gen <= row'[j].attempt + MaxSuspends
                    /\ row'[j].resume => row'[j].gen <= MaxSuspends
                    /\ row'[j].state = "running" => row'[j].gen >= 1
    BY DEF ClaimsCounted
<1>0. /\ row[j] \in Row /\ row[j].attempt \in Nat /\ row[j].gen \in Nat /\ MaxSuspends \in Nat
      /\ row[j].gen <= row[j].attempt + MaxSuspends
      /\ row[j].resume => row[j].gen <= MaxSuspends /\ row[j].attempt >= 1 /\ Backend = "local"
      /\ row[j].state = "running" => row[j].gen >= 1
    BY LimitAssumption DEF TypeInv, TypeOK, Row, IInv, TriedOnce, ClaimsCounted, SuspendsAreCopies
<1>1. CASE EnqueueJob(j)
  <2>1. row'[j] = [row[j] EXCEPT !.state = "pending", !.ready = TRUE]
      BY <1>1 DEF EnqueueJob, TypeInv, TypeOK
  <2>2. /\ row'[j].attempt = row[j].attempt /\ row'[j].gen = row[j].gen
        /\ row'[j].resume <=> row[j].resume
        /\ row'[j].state = "pending"
      BY <1>0, <2>1 DEF Row
  <2>q. QED BY <1>0, <2>2
<1>2. CASE Quiet(row[j], row'[j])
    BY <1>0, <1>2 DEF Quiet
<1>3. CASE Stopped(row[j], row'[j])
  <2>1. row'[j].resume => row[j].resume \/ row[j].gen <= MaxSuspends
      BY <1>3, StopReasons DEF Stopped, StopReason, Terminal
  <2>q. QED BY <1>0, <1>3, <2>1 DEF Stopped, Terminal
<1>4. CASE Taken(row[j], row'[j])
  <2>1. ~row'[j].resume
      BY <1>0, <1>4 DEF Taken
  <2>q. QED BY <1>0, <1>4, <2>1 DEF Taken
<1>5. CASE Removed(row[j], row'[j])
    BY <1>0, <1>5 DEF Removed, NoRow
<1>q. QED BY <1>1, <1>2, <1>3, <1>4, <1>5, RowMoves DEF RowMove, Calm

\* A row that is active after a step was active before it, and a turn counts
\* every change between pending and running.
LEMMA TurnsMove ==
    ASSUME TypeInv, IInv, [Next]_vars, NEW j \in Jobs, row[j].state # "absent"
    PROVE  /\ row'[j].state # "absent"
           /\ Turns(j) \in Int /\ Turns(j) >= 0
           /\ row'[j].state \in Active =>
                /\ row[j].state \in Active
                /\ row[j].cancel => row'[j].cancel
                /\ IF row'[j].state = row[j].state THEN Turns(j)' = Turns(j)
                                                  ELSE Turns(j)' = Turns(j) + 1
<1>0. /\ row[j] \in Row /\ row[j].gen \in Nat
      /\ row[j].state = "running" => row[j].gen >= 1
    BY DEF TypeInv, TypeOK, Row, IInv, ClaimsCounted
<1>1. Turns(j) \in Int /\ Turns(j) >= 0
    BY <1>0 DEF Turns
<1>2. ~EnqueueJob(j)
    BY DEF EnqueueJob
<1>3. CASE Quiet(row[j], row'[j])
    BY <1>1, <1>3 DEF Quiet, Turns
<1>4. CASE Stopped(row[j], row'[j])
    BY <1>0, <1>1, <1>4 DEF Stopped, Turns, Active, Terminal
<1>5. CASE Taken(row[j], row'[j])
    BY <1>0, <1>1, <1>5 DEF Taken, Turns, Active
<1>6. CASE Removed(row[j], row'[j])
    BY <1>1, <1>6 DEF Removed, NoRow, Active
<1>q. QED BY <1>2, <1>3, <1>4, <1>5, <1>6, RowMoves DEF RowMove, Calm

\* Every step keeps the rounds of the cancel request accounted for.
LEMMA CancelStep ==
    ASSUME TypeInv, IInv, [Next]_vars
    PROVE  CancelAccounted'
<1>a. PICK j : j = op.job
    OBVIOUS
<1> DEFINE Act == row[j].state \in Active
<1>b. \/ op \in [pc : {"read", "cas"}, job : Jobs, running : BOOLEAN, tries : 1 .. CancelTries]
      \/ op \in [pc : {"answered"}, job : Jobs, running : {FALSE}, tries : {0}]
      \/ op = NoRequest
    BY DEF TypeInv, TypeOK
<1>0. /\ CancelAccounted /\ row \in [Jobs -> Row] /\ CancelTries \in Nat \ {0}
      /\ op.pc # "idle" => j \in Jobs /\ op.tries \in Nat
      /\ op.pc \in {"idle", "read", "cas", "answered"}
      /\ op.pc \in {"read", "cas"} => op.tries \in 1 .. CancelTries /\ op.running \in BOOLEAN
  <2>1. CancelAccounted /\ row \in [Jobs -> Row] /\ CancelTries \in Nat \ {0}
      BY LimitAssumption DEF IInv, TypeInv, TypeOK
  <2>2. CASE op \in [pc : {"read", "cas"}, job : Jobs, running : BOOLEAN, tries : 1 .. CancelTries]
      BY <1>a, <2>1, <2>2
  <2>3. CASE op \in [pc : {"answered"}, job : Jobs, running : {FALSE}, tries : {0}]
      BY <1>a, <2>1, <2>3
  <2>4. CASE op = NoRequest
      BY <2>1, <2>4 DEF NoRequest
  <2>q. QED BY <1>b, <2>2, <2>3, <2>4
<1>1. CASE UNCHANGED op /\ op.pc = "idle"
    BY <1>a, <1>1 DEF CancelAccounted
<1>2. CASE UNCHANGED op /\ op.pc # "idle"
  <2>1. j \in Jobs /\ row[j].state # "absent"
      BY <1>a, <1>0, <1>2 DEF CancelAccounted
  <2>2. /\ row'[j].state # "absent" /\ Turns(j) \in Int
        /\ row'[j].state \in Active =>
             /\ Act /\ (row[j].cancel => row'[j].cancel)
             /\ IF row'[j].state = row[j].state THEN Turns(j)' = Turns(j)
                                               ELSE Turns(j)' = Turns(j) + 1
      BY <2>1, TurnsMove
  <2>3. CASE row'[j].state \notin Active
      BY <1>a, <1>2, <2>2, <2>3 DEF CancelAccounted
  <2>4. CASE row'[j].state \in Active
    <3>1. Turns(j)' \in Int /\ Turns(j)' >= Turns(j)
          /\ (row'[j].state # row[j].state => Turns(j)' > Turns(j))
        BY <2>2, <2>4
    <3>2. CASE op.pc = "read"
        BY <1>a, <1>0, <1>2, <2>2, <2>4, <3>1, <3>2 DEF CancelAccounted
    <3>3. CASE op.pc = "cas"
      <4>1. CancelTries - op.tries <= Turns(j)
            /\ (op.running # (row[j].state = "running") => CancelTries - op.tries < Turns(j))
          BY <1>a, <1>0, <2>2, <2>4, <3>3 DEF CancelAccounted
      <4>2. CancelTries - op.tries <= Turns(j)'
            /\ (op.running # (row'[j].state = "running") => CancelTries - op.tries < Turns(j)')
          BY <1>0, <2>2, <3>1, <3>3, <4>1
      <4>q. QED BY <1>a, <1>2, <2>2, <3>3, <4>2 DEF CancelAccounted
    <3>4. CASE op.pc = "answered"
        BY <1>a, <1>0, <1>2, <2>2, <2>4, <3>1, <3>4 DEF CancelAccounted
    <3>q. QED BY <1>0, <1>2, <3>2, <3>3, <3>4
  <2>q. QED BY <2>3, <2>4
<1>3. ASSUME NEW i \in Jobs, CancelBegins(i)
      PROVE  CancelAccounted'
  <2>1. /\ op' = [pc |-> "read", job |-> i, running |-> FALSE, tries |-> CancelTries]
        /\ row' = row /\ row[i].state # "absent"
      BY <1>3 DEF CancelBegins, queueVars
  <2>2. Turns(i)' = Turns(i) /\ Turns(i) >= 0
      BY <2>1, TurnsMove DEF Turns
  <2>3. op'.job = i /\ op'.pc = "read" /\ CancelTries - op'.tries = 0
      BY <1>0, <2>1
  <2>q. QED BY <1>a, <2>1, <2>2, <2>3 DEF CancelAccounted
<1>4. CASE CancelReads
  <2>1. /\ op.pc = "read" /\ row' = row /\ op'.job = j
        /\ op'.pc = IF Act THEN "cas" ELSE "answered"
        /\ op'.running = (row[j].state = "running")
        /\ Act => op'.tries = op.tries
      BY <1>a, <1>b, <1>0, <1>4 DEF CancelReads, queueVars, NoRequest
  <2>2. Turns(j)' = Turns(j)
      BY <2>1 DEF Turns
  <2>q. QED BY <1>a, <1>0, <2>1, <2>2 DEF CancelAccounted
<1>5. CASE CancelCas
  <2> DEFINE hit == row[j].state = (IF op.running THEN "running" ELSE "pending")
             done == hit \/ op.tries = 1
  <2>1. /\ op.pc = "cas" /\ op'.job = j /\ j \in Jobs
        /\ op'.pc = IF done THEN "answered" ELSE "read"
        /\ op'.tries = IF done THEN 0 ELSE op.tries - 1
      BY <1>a, <1>b, <1>0, <1>5 DEF CancelCas, NoRequest
  <2>2. CASE hit
    <3>1. row'[j].cancel /\ row'[j].state # "absent"
      <4>1. row'[j] = CancelFlag(row[j]) \/ row'[j] = CancelPending(row[j])
          BY <1>a, <1>0, <1>5, <2>1, <2>2 DEF CancelCas
      <4>2. row[j].state # "absent" /\ row[j] \in Row
          BY <1>0, <2>1, <2>2
      <4>q. QED BY <4>1, <4>2 DEF CancelFlag, CancelPending, Released, Row
    <3>q. QED BY <1>a, <2>1, <2>2, <3>1 DEF CancelAccounted
  <2>3. CASE ~hit
    <3>1. row' = row
        BY <1>a, <1>5, <2>3 DEF CancelCas
    <3>2. Turns(j)' = Turns(j) /\ Turns(j) \in Int /\ row[j].state # "absent"
        BY <1>a, <1>0, <2>1, <3>1, TurnsMove DEF Turns, CancelAccounted
    <3>3. Act => op.running # (row[j].state = "running")
        BY <1>0, <2>1, <2>3 DEF Active
    <3>4. Act => CancelTries - op.tries < Turns(j)
        BY <1>a, <1>0, <2>1, <3>3 DEF CancelAccounted
    <3>5. CASE op.tries = 1
        BY <1>a, <1>0, <2>1, <3>1, <3>2, <3>4, <3>5 DEF CancelAccounted
    <3>6. CASE op.tries # 1
      <4>1. Act => CancelTries - op'.tries <= Turns(j)'
          BY <1>0, <2>1, <2>3, <3>2, <3>4, <3>6
      <4>q. QED BY <1>a, <2>1, <2>3, <3>1, <3>2, <3>6, <4>1 DEF CancelAccounted
    <3>q. QED BY <3>5, <3>6
  <2>q. QED BY <2>2, <2>3
<1>6. CASE CancelErrs
    BY <1>a, <1>6 DEF CancelErrs, CancelAccounted, NoRequest
<1>7. ASSUME NEW w \in Workers, WorkerStep(w) \/ WorkerFault(w) \/ HeartbeatAnswered(w)
      PROVE  UNCHANGED op
    BY <1>7 DEF WorkerStep, ReclaimRead, ReclaimRow, PruneTerminalJobs, ClaimRuns, ClaimReplies,
       HandlerOk, HandlerErr, SuspendJob, CompleteJob, FailRead, FailIgnored, FailJob,
       WorkerFault, ReclaimFails, ClaimGivesUp, ClaimArrivesLate, HeartbeatErrs,
       HeartbeatDeadline, SuspendFails, CompleteErrs, FailErrs, Crash, HeartbeatAnswered
<1>8. ASSUME \/ \E i \in Jobs : EnqueueJob(i) \/ RunAfterPasses(i) \/ LeaseLapses(i)
             \/ \E u \in late : UpdateArrives(u) \/ UpdateLost(u)
             \/ UNCHANGED vars
      PROVE  UNCHANGED op
    BY <1>8 DEF EnqueueJob, RunAfterPasses, LeaseLapses, UpdateArrives, UpdateLost, vars
<1>q. QED BY <1>1, <1>2, <1>3, <1>4, <1>5, <1>6, <1>7, <1>8 DEF Next, Operator
-----------------------------------------------------------------------------
(* The theorems. *)

\* The empty queue satisfies the inductive invariant.
LEMMA IInvInit == Init => IInv
<1> SUFFICES ASSUME Init PROVE IInv
    OBVIOUS
<1>1. /\ \A j \in Jobs : row[j] = NoRow
      /\ \A w \in Workers : /\ pc[w] = "top" /\ fence[w] = NoFence
                            /\ seen[w] = {} /\ due[w] = {}
      /\ late = {}
    BY DEF Init
<1>2. /\ NoRow.state = "absent" /\ NoRow.attempt = 0 /\ ~NoRow.resume /\ NoRow.said = "no"
    BY DEF NoRow
<1>3. FenceKnown /\ NeverAhead /\ SnapshotsHold /\ LateIsTrue /\ DueIsPast /\ BlankUntilAdmitted
    BY <1>1, <1>2 DEF FenceKnown, NeverAhead, SnapshotsHold, LateIsTrue, DueIsPast, BlankUntilAdmitted
<1>4. SuspendsAreCopies /\ SaidIsHeard
    BY <1>1, <1>2, FiniteJobs DEF SuspendsAreCopies, SaidIsHeard, Fenced
<1>5. AttemptsBounded
    BY <1>1, <1>2, LimitAssumption DEF AttemptsBounded
<1>6. TriedOnce
    BY <1>1, <1>2 DEF TriedOnce
<1>7. RunningIsFollowed /\ ClaimsCounted
    BY <1>1, <1>2, LimitAssumption DEF RunningIsFollowed, ClaimsCounted, NoRow
<1>8. CancelAccounted
    BY DEF Init, CancelAccounted, NoRequest
<1>q. QED BY <1>3, <1>4, <1>5, <1>6, <1>7, <1>8 DEF IInv

\* Every step keeps the inductive invariant.
LEMMA IInvStep ==
    ASSUME TypeInv, IInv, [Next]_vars
    PROVE  IInv'
<1>1. FenceKnown' BY TypeStep DEF TypeInv
<1>q. QED
    BY <1>1, NeverAheadStep, SnapshotsStep, SuspendsStep, LateIsTrueStep, SaidStep, DueStep,
       BlankStep, AttemptsStep, TriedStep, FollowedStep, ClaimsStep, CancelStep DEF IInv

\* The inductive invariant: fences, snapshots and updates in flight are never
\* ahead of their row, and stay true of it while their generation runs.
THEOREM InvariantTheorem == Spec => []IInv
<1>1. TypeInv /\ IInv /\ [Next]_vars => IInv'
    BY IInvStep
<1>q. QED BY <1>1, IInvInit, TypeAlways, PTL DEF Spec

\* No job is claimed more than max_attempts times, and fail_job and reclaim
\* queue a retry only while an attempt is left, whatever they read and when.
THEOREM AttemptsTheorem == Spec => []AttemptsBounded
<1>1. IInv => AttemptsBounded BY DEF IInv
<1>q. QED BY <1>1, InvariantTheorem, PTL

\* complete_job succeeds only for the run that the row's generation counts.
THEOREM SuccessTheorem == Spec => SuccessIsCurrentRun
<1>1. TypeInv /\ IInv /\ [Next]_vars =>
        [\A j \in Jobs :
           row[j].state # "succeeded" /\ row'[j].state = "succeeded"
              => row[j].said \in {"ok", "unfenced"}]_vars
  <2> SUFFICES ASSUME TypeInv, IInv, [Next]_vars, NEW j \in Jobs,
                      row[j].state # "succeeded", row'[j].state = "succeeded"
               PROVE  row[j].said \in {"ok", "unfenced"}
      OBVIOUS
  <2>1. row[j].state = "running"
    <3>1. ~EnqueueJob(j) BY DEF EnqueueJob, TypeInv, TypeOK, Row
    <3>q. QED BY <3>1, RowMoves
          DEF RowMove, Calm, Quiet, Stopped, Taken, Removed, NoRow
  <2>q. QED BY <2>1, StopReasons DEF StopReason
<1>q. QED BY <1>1, InvariantTheorem, TypeAlways, PTL DEF Spec, SuccessIsCurrentRun

\* A row with a live lease leaves running only on the word of its own handler:
\* reclaim never takes a row that a heartbeat extended after reclaim read it.
THEOREM LeaseTheorem == Spec => LiveLeaseNotStolen
<1>1. TypeInv /\ IInv /\ [Next]_vars =>
        [\A j \in Jobs :
           row[j].state = "running" /\ row[j].lease = "live" /\ row'[j].state # "running"
              => row[j].said # "no" \/ row'[j].resume]_vars
    BY StopReasons DEF StopReason
<1>q. QED BY <1>1, InvariantTheorem, TypeAlways, PTL DEF Spec, LiveLeaseNotStolen

\* Every running row is followed by the worker that claimed it or was let go of:
\* replaying a claim's operation id never leaves a second row behind.
THEOREM FollowedTheorem == Spec => []RunningIsFollowed
<1>1. IInv => RunningIsFollowed BY DEF IInv
<1>q. QED BY <1>1, InvariantTheorem, PTL

\* A cancel that was answered leaves a job running unflagged only when the job
\* started and stopped at least CancelTries times before.
LEMMA LostCancelTurns ==
    ASSUME TypeInv, IInv, op.pc = "answered", row[op.job].state = "running", ~row[op.job].cancel
    PROVE  CancelTries <= 2 * row[op.job].gen - 1
BY DEF IInv, CancelAccounted, Turns, Active

\* request_job_cancel gives up after CancelTries lost rounds.  When a job cannot
\* start and stop that often - it has MaxAttempts attempts and is resumed at most
\* MaxSuspends times - no cancel that returns leaves it running unflagged.
THEOREM CancelKeptTheorem ==
    ASSUME CancelTries >= 2 * (MaxAttempts + MaxSuspends)
    PROVE  Spec => []CancelNeverLost
<1>1. TypeInv /\ IInv => CancelNeverLost
  <2> SUFFICES ASSUME TypeInv, IInv, op.pc = "answered", row[op.job].state = "running",
                      ~row[op.job].cancel
               PROVE  FALSE
      BY DEF CancelNeverLost
  <2>1. op.job \in Jobs
    <3>1. \/ op \in [pc : {"read", "cas"}, job : Jobs, running : BOOLEAN, tries : 1 .. CancelTries]
          \/ op \in [pc : {"answered"}, job : Jobs, running : {FALSE}, tries : {0}]
          \/ op = NoRequest
        BY DEF TypeInv, TypeOK
    <3>2. op # NoRequest BY DEF NoRequest
    <3>q. QED BY <3>1, <3>2
  <2>2. /\ row[op.job].gen \in Nat /\ row[op.job].attempt \in Nat
        /\ row[op.job].gen <= row[op.job].attempt + MaxSuspends
        /\ row[op.job].attempt <= MaxAttempts
      BY <2>1 DEF TypeInv, TypeOK, Row, IInv, ClaimsCounted, AttemptsBounded
  <2>3. CancelTries <= 2 * row[op.job].gen - 1
      BY LostCancelTurns
  <2>q. QED BY <2>2, <2>3, LimitAssumption
<1>q. QED BY <1>1, InvariantTheorem, TypeAlways, PTL
-----------------------------------------------------------------------------
(* The queue implements JobLifecycle: a job's phase, its tries and whether it *)
(* was asked to stop are read off its row, and what the invariant says of a   *)
(* step that moves the row makes it a step of the lifecycle.                  *)

\* The job as the lifecycle sees it.
Abs(r) == [phase |-> Phase(r), tries |-> r.attempt, asked |-> r.cancel]

\* The phase of a row, state by state.
LEMMA PhaseFacts ==
    ASSUME NEW r \in Row
    PROVE  /\ Phase(r) \in {"absent", "forgotten", "waiting", "parked", "active",
                            "done", "failed", "cancelled"}
           /\ Phase(r) \in {"waiting", "parked", "active"} <=> r.state \in Active
           /\ Phase(r) = "waiting" <=> r.state = "pending" /\ ~r.resume
           /\ Phase(r) = "parked" <=> r.state = "pending" /\ r.resume
           /\ Phase(r) = "active" <=> r.state = "running"
           /\ Phase(r) = "done" <=> r.state = "succeeded"
           /\ Phase(r) = "failed" <=> r.state = "failed"
           /\ Phase(r) = "cancelled" <=> r.state = "cancelled"
           /\ Phase(r) = "forgotten" <=> r.state = "pruned"
           /\ Phase(r) = "absent" <=> r.state = "absent"
BY DEF Phase, Row, States, Active, Terminal

\* The empty queue is the lifecycle's initial state.
LEMMA InitRefines == Init => Lifecycle!LInit
BY DEF Init, Lifecycle!LInit, Lifecycle!New, NoRow, Phase

\* The abstract job of a row is one of the lifecycle's jobs.
LEMMA AbsFacts ==
    ASSUME NEW r \in Row
    PROVE  /\ Abs(r).phase = Phase(r) /\ Abs(r).tries = r.attempt /\ Abs(r).asked = r.cancel
           /\ Abs(r).asked \in BOOLEAN /\ Abs(r).tries \in Nat
           /\ Abs(r) \in Lifecycle!JobState
<1>1. /\ Abs(r).phase = Phase(r) /\ Abs(r).tries = r.attempt /\ Abs(r).asked = r.cancel
      /\ Abs(r).asked \in BOOLEAN /\ Abs(r).tries \in Nat
    BY DEF Abs, Row
<1>2. Abs(r) \in Lifecycle!JobState
    BY <1>1, PhaseFacts, Zenon DEF Abs, Row, Lifecycle!JobState, Lifecycle!Live, Lifecycle!Settled
<1>q. QED BY <1>1, <1>2

\* A row that does not move, or is only flagged.
LEMMA QuietRefines ==
    ASSUME NEW a \in Row, NEW b \in Row, Quiet(a, b)
    PROVE  Abs(b) = Abs(a) \/ Lifecycle!Asks(Abs(a), Abs(b))
<1>1. Phase(b) = Phase(a) /\ b.attempt = a.attempt
    BY DEF Quiet, Phase
<1>2. CASE b.cancel = a.cancel
    BY <1>1, <1>2, Zenon DEF Abs
<1>3. CASE b.cancel # a.cancel
  <2>1. b.cancel \in BOOLEAN /\ a.cancel \in BOOLEAN BY Zenon DEF Row
  <2>2. b.cancel = TRUE /\ a.state = "running"
      BY <1>3, <2>1, Zenon DEF Quiet
  <2>3. Abs(a).phase = "active"
      BY <2>2, PhaseFacts, AbsFacts
  <2>4. Abs(b).phase = "active" /\ Abs(b).tries = Abs(a).tries /\ Abs(b).asked
      BY <1>1, <2>2, <2>3, AbsFacts
  <2>q. QED BY <2>3, <2>4 DEF Lifecycle!Asks
<1>q. QED BY <1>2, <1>3

\* A row that leaves running for a good reason.
LEMMA StopRefines ==
    ASSUME NEW j \in Jobs, row[j] \in Row, row'[j] \in Row,
           row[j].state = "running", Stopped(row[j], row'[j]), StopReason(j)
    PROVE  Lifecycle!Ends(Abs(row[j]), Abs(row'[j]))
<1> DEFINE a == row[j]
           b == row'[j]
<1>0. /\ Abs(a).phase = "active" /\ Abs(b).tries = Abs(a).tries
      /\ Abs(a).tries = a.attempt /\ Abs(a).asked = a.cancel /\ Abs(b).asked = b.cancel
      /\ a.cancel \in BOOLEAN /\ b.cancel \in BOOLEAN
    BY PhaseFacts, AbsFacts DEF Stopped, Row
<1>1. b.state \in {"pending", "succeeded", "failed", "cancelled"}
    BY DEF Stopped, Terminal
<1>2. CASE b.state = "cancelled"
  <2>1. Abs(b).phase = "cancelled" BY <1>2, PhaseFacts, AbsFacts
  <2>2. a.cancel /\ b.cancel BY <1>2 DEF StopReason, Stopped
  <2>q. QED BY <1>0, <2>1, <2>2, Zenon DEF Lifecycle!Ends
<1>3. CASE b.state # "cancelled"
  <2>1. b.cancel = a.cancel BY <1>0, <1>3, Zenon DEF Stopped
  <2>2. Abs(b).asked = Abs(a).asked BY <1>0, <2>1, Zenon
  <2>3. CASE b.state = "succeeded"
    <3>1. Abs(b).phase = "done" BY <2>3, PhaseFacts, AbsFacts
    <3>q. QED BY <1>0, <2>2, <3>1, Zenon DEF Lifecycle!Ends
  <2>4. CASE b.state = "failed"
    <3>1. Abs(b).phase = "failed" /\ a.attempt >= MaxAttempts
        BY <2>4, PhaseFacts, AbsFacts DEF StopReason
    <3>2. Abs(a).tries >= MaxAttempts BY <1>0, <3>1
    <3>q. QED BY <1>0, <2>2, <3>1, <3>2, Zenon DEF Lifecycle!Ends
  <2>5. CASE b.state = "pending" /\ b.resume
    <3>1. Abs(b).phase = "parked" BY <2>5, PhaseFacts, AbsFacts
    <3>q. QED BY <1>0, <2>2, <3>1, Zenon DEF Lifecycle!Ends
  <2>6. CASE b.state = "pending" /\ ~b.resume
    <3>1. Abs(b).phase = "waiting" /\ a.attempt < MaxAttempts
        BY <2>6, PhaseFacts, AbsFacts DEF StopReason
    <3>2. Abs(a).tries < MaxAttempts BY <1>0, <3>1
    <3>q. QED BY <1>0, <2>2, <3>1, <3>2, Zenon DEF Lifecycle!Ends
  <2>q. QED BY <1>1, <1>3, <2>3, <2>4, <2>5, <2>6
<1>q. QED BY <1>2, <1>3

\* A row that is withdrawn before anybody runs it.
LEMMA WithdrawRefines ==
    ASSUME NEW j \in Jobs, row[j] \in Row, row'[j] \in Row,
           row[j].state = "pending", Stopped(row[j], row'[j]),
           row'[j].state = "failed" => Backend = "plan" /\ j \in CopyJobs
    PROVE  \/ Lifecycle!Withdraws(Abs(row[j]), Abs(row'[j]))
           \/ Lifecycle!Refuses(j, Abs(row[j]), Abs(row'[j]))
<1> DEFINE a == row[j]
           b == row'[j]
<1>0. /\ Abs(a).phase \in {"waiting", "parked"} /\ b.attempt = a.attempt
      /\ a.cancel \in BOOLEAN /\ b.cancel \in BOOLEAN
    BY PhaseFacts, AbsFacts DEF Stopped, Row
<1>1. CASE b.state = "cancelled"
  <2>1. Phase(b) = "cancelled" BY <1>1, PhaseFacts
  <2>2. b.cancel = TRUE BY <1>0, <1>1, Zenon DEF Stopped
  <2>3. Abs(b).phase = "cancelled" /\ Abs(b).tries = Abs(a).tries /\ Abs(b).asked
      BY <1>0, <2>1, <2>2, AbsFacts
  <2>q. QED BY <1>0, <2>3 DEF Lifecycle!Withdraws
<1>2. CASE b.state = "failed"
  <2>1. Phase(b) = "failed" BY <1>2, PhaseFacts
  <2>2. b.cancel = a.cancel BY <1>0, <1>2, Zenon DEF Stopped
  <2>3. Abs(b).phase = "failed" /\ Abs(b).tries = Abs(a).tries /\ Abs(b).asked = Abs(a).asked
      BY <1>0, <2>1, <2>2, AbsFacts, Zenon
  <2>4. j \in IF Backend = "plan" THEN CopyJobs ELSE {}
      BY <1>2
  <2>q. QED BY <1>0, <2>3, <2>4, Zenon DEF Lifecycle!Refuses
<1>q. QED BY <1>1, <1>2 DEF Stopped

\* A claim.
LEMMA TakeRefines ==
    ASSUME IInv, NEW j \in Jobs, row[j] \in Row, row'[j] \in Row, Taken(row[j], row'[j])
    PROVE  Lifecycle!Starts(Abs(row[j]), Abs(row'[j]))
<1> DEFINE a == row[j]
           b == row'[j]
<1>0. /\ Abs(a).tries = a.attempt /\ Abs(b).tries = b.attempt
      /\ Abs(b).phase = "active" /\ ~Abs(a).asked /\ ~Abs(b).asked
    BY PhaseFacts, AbsFacts DEF Taken
<1>1. CASE a.resume
  <2>1. Abs(a).phase = "parked" BY <1>1, PhaseFacts, AbsFacts DEF Taken
  <2>2. Backend # "plan" /\ a.attempt >= 1
      BY <1>1, BackendAssumption DEF IInv, SuspendsAreCopies, TriedOnce
  <2>3. b.attempt = a.attempt
      BY <1>1, <2>2 DEF Taken
  <2>q. QED BY <1>0, <2>1, <2>3 DEF Lifecycle!Starts
<1>2. CASE ~a.resume
  <2>1. Abs(a).phase = "waiting" BY <1>2, PhaseFacts, AbsFacts DEF Taken
  <2>2. a.attempt < MaxAttempts /\ b.attempt = a.attempt + 1
      BY <1>2 DEF Taken, IInv, AttemptsBounded
  <2>q. QED BY <1>0, <2>1, <2>2 DEF Lifecycle!Starts
<1>q. QED BY <1>1, <1>2

\* Retention.
LEMMA RemoveRefines ==
    ASSUME NEW a \in Row, NEW b \in Row, Removed(a, b)
    PROVE  Lifecycle!Forgets(Abs(a), Abs(b))
<1>1. Abs(a).phase \in Lifecycle!Settled
    BY PhaseFacts, AbsFacts DEF Removed, Terminal, Lifecycle!Settled
<1>2. b.attempt = 0 /\ b.cancel = FALSE /\ b.state = "pruned"
    BY DEF Removed, NoRow
<1>3. Phase(b) = "forgotten" BY <1>2, PhaseFacts
<1>4. Abs(b) = Lifecycle!New("forgotten")
    BY <1>2, <1>3, Zenon DEF Abs, Lifecycle!New
<1>q. QED BY <1>1, <1>4 DEF Lifecycle!Forgets
-----------------------------------------------------------------------------
\* The mapped variable.
Job == [j \in Jobs |-> Abs(row[j])]

\* Enqueue admits a job.
LEMMA AdmitRefines ==
    ASSUME TypeInv, IInv, NEW j \in Jobs, EnqueueJob(j)
    PROVE  Lifecycle!Admit(j)
<1>0. row \in [Jobs -> Row] BY DEF TypeInv, TypeOK
<1>1. row[j] = NoRow
    BY DEF EnqueueJob, IInv, BlankUntilAdmitted
<1>2. {i \in Jobs : Job[i].phase \in Lifecycle!Live} = ActiveJobs
    BY <1>0, PhaseFacts, AbsFacts DEF Job, ActiveJobs, Lifecycle!Live
<1>3. Job[j].phase = "absent"
    BY <1>0, PhaseFacts, AbsFacts DEF Job, EnqueueJob
<1>4. Job' = [Job EXCEPT ![j] = Lifecycle!New("waiting")]
  <2>1. row' = [row EXCEPT ![j] = [NoRow EXCEPT !.state = "pending", !.ready = TRUE]]
      BY <1>0, <1>1 DEF EnqueueJob
  <2>2. Abs([NoRow EXCEPT !.state = "pending", !.ready = TRUE]) = Lifecycle!New("waiting")
      BY DEF NoRow, Abs, Phase, Lifecycle!New
  <2>q. QED BY <1>0, <2>1, <2>2 DEF Job
<1>5. /\ \A i \in ActiveJobs : ~SameKey(i, j)
      /\ Cardinality(ActiveJobs) < MaxPending
    BY DEF EnqueueJob
<1>6. Lifecycle!Cardinality(ActiveJobs) = Cardinality(ActiveJobs)
    BY DEF Lifecycle!Cardinality, Cardinality
<1>q. QED BY <1>2, <1>3, <1>4, <1>5, <1>6 DEF Lifecycle!Admit, Job, Abs

\* Every other step moves each job along its life.
LEMMA MoveRefines ==
    ASSUME TypeInv, IInv, [Next]_vars, NEW j \in Jobs, RowMove(j)
    PROVE  Abs(row'[j]) = Abs(row[j]) \/ Lifecycle!Moves(j, Abs(row[j]), Abs(row'[j]))
<1>0. row[j] \in Row /\ row'[j] \in Row
    BY GenMoves
<1>1. CASE Quiet(row[j], row'[j])
    BY <1>0, <1>1, QuietRefines DEF Lifecycle!Moves
<1>2. CASE /\ Stopped(row[j], row'[j])
           /\ row[j].state = "pending" /\ row'[j].state = "failed"
                => Backend = "plan" /\ j \in CopyJobs
  <2>1. CASE row[j].state = "running"
      BY <1>0, <1>2, <2>1, StopReasons, StopRefines DEF Lifecycle!Moves
  <2>2. CASE row[j].state = "pending"
      BY <1>0, <1>2, <2>2, WithdrawRefines DEF Lifecycle!Moves
  <2>q. QED BY <1>2, <2>1, <2>2 DEF Stopped
<1>3. CASE Taken(row[j], row'[j])
    BY <1>0, <1>3, TakeRefines DEF Lifecycle!Moves
<1>4. CASE Removed(row[j], row'[j])
    BY <1>0, <1>4, RemoveRefines DEF Lifecycle!Moves
<1>q. QED BY <1>1, <1>2, <1>3, <1>4 DEF RowMove, Calm

\* Every step of the queue is a step or a stutter of the lifecycle.
LEMMA StepRefines ==
    ASSUME TypeInv, IInv, [Next]_vars
    PROVE  Lifecycle!LNext
<1>0. row \in [Jobs -> Row] /\ row' \in [Jobs -> Row]
    BY TypeStep DEF TypeInv, TypeOK
<1>1. ASSUME NEW j \in Jobs, EnqueueJob(j)
      PROVE  Lifecycle!LNext
    BY <1>1, AdmitRefines DEF Lifecycle!LNext
<1>2. CASE \A j \in Jobs : RowMove(j)
  <2>1. Job' \in [Jobs -> Lifecycle!JobState]
      BY <1>0, AbsFacts DEF Job
  <2>2. \A j \in Jobs : Job'[j] = Job[j] \/ Lifecycle!Moves(j, Job[j], Job'[j])
      BY <1>2, MoveRefines DEF Job
  <2>3. Lifecycle!Progress
      BY <2>1, <2>2 DEF Lifecycle!Progress, Job, Abs
  <2>q. QED BY <2>3 DEF Lifecycle!LNext
<1>q. QED BY <1>1, <1>2, RowMoves

\* The leased queue, with its retries, expired leases, lost replies, late
\* updates and crashes, implements the lifecycle that docs/jobs.md draws.
THEOREM RefinementTheorem == Spec => RefinesLifecycle
<1>1. Init => Lifecycle!LInit
    BY InitRefines
<1>2. TypeInv /\ IInv /\ [Next]_vars
        => [Lifecycle!LNext]_([j \in Jobs |-> [phase |-> Phase(row[j]), tries |-> row[j].attempt,
                                               asked |-> row[j].cancel]])
    BY StepRefines
<1>q. QED BY <1>1, <1>2, InvariantTheorem, TypeAlways, PTL DEF Spec, RefinesLifecycle, Lifecycle!LSpec
=============================================================================
